---- MODULE Spec2Model ----
(***************************************************************************)
(* A model of lcc's recursive-descent C parser (Parser.cc).                *)
(*                                                                         *)
(* The parser is a set of mutually recursive member functions that share   *)
(* the token cursor, the scope table and the diagnostics.  Each member     *)
(* function is an operator from a parser state p to a result               *)
(* [p |-> state after, ok |-> engaged optional, n |-> syntax node]; the    *)
(* actions of the specifications call the entry points.                    *)
(*                                                                         *)
(*   Spec            ParseTranslationUnit on token vectors made of         *)
(*                   external-declaration fragments                        *)
(*   SpecSpecifiers  ParseDeclarationSpecifiers and                        *)
(*                   ParseSpecifierQualifierList called on their own       *)
(*   SpecScope       the member functions of Parser::Scope in any order    *)
(*   SpecTokenView   Match, Expect, Consume and ConsumeAny in any order    *)
(*   SpecDeclarator  ParseDeclarator on function declarators               *)
(*   SpecStruct      ParseStructOrUnionSpecifier                           *)
(*   SpecBinary      ParseLogOrExpr on operands joined by binary operators *)
(*   SpecAssign      ParseAssignExpr on operands joined by assignments     *)
(*   SpecCast        ParseCastExpr on a parenthesised token                *)
(*   SpecStmt        ParseStmt on statements that start with an identifier *)
(*   SpecFor         ParseForStmt on for statements                        *)
(*   SpecAbstract    ParseAbstractDeclarator                               *)
(*   SpecArray       ParseDeclarator on array declarators                  *)
(*   SpecBlock       ParseBlockStmt on blocks of declarations, statements  *)
(*                   and nested blocks                                     *)
(*   SpecBlockItem   ParseBlockItem at each kind of first token            *)
(*   SpecFirst       the specifier loops at each token of their FIRST      *)
(*                   predicates                                            *)
(*   SpecMiss        ParseAssignExpr and ParseDeclarator on ill-formed     *)
(*                   token vectors                                         *)
(*   SpecSuffix      ParsePostFixExpr on a primary and what follows it     *)
(*   SpecDefinition  ParseExternalDeclaration on function definitions      *)
(***************************************************************************)
EXTENDS Integers, Sequences, FiniteSets, TLC

VARIABLES
  mTokens,     \* Parser::mTokens, the token vector
  mPast,       \* what the memory behind mTokens.cend() reads as (indeterminate)
  mTokCursor,  \* Parser::mTokCursor, as an index: Len(mTokens) + 1 is mTokEnd
  mScope,      \* Parser::Scope::mCurrentScope, a vector of frames
  decls,       \* ParseTranslationUnit's local decls, then its result
  diag,        \* number of LOGE reports so far
  ubHit,       \* undefined behaviour has been executed
  pc,          \* where the caller of the parser is
  iters,       \* iterations of ParseTranslationUnit's loop so far
  hist,        \* scope and declaration events of the calls made so far
  unit,        \* the member function the driver calls
  valid        \* the token vector was drawn from the well-formed corpus

vars == <<mTokens, mPast, mTokCursor, mScope, decls, diag, ubHit, pc, iters,
          hist, unit, valid>>

(***************************************************************************)
(* Tokens                                                                  *)
(***************************************************************************)
Kw(k) == [k |-> k, v |-> ""]
Id(name) == [k |-> "identifier", v |-> name]
Num(text) == [k |-> "numeric_constant", v |-> text]

TokEnd == Len(mTokens) + 1

\* the token an iterator at index i refers to
TokAt(i) ==
  IF i \in 1..Len(mTokens) THEN mTokens[i]
  ELSE IF i - Len(mTokens) \in 1..Len(mPast) THEN mPast[i - Len(mTokens)]
  ELSE Kw("none")

(***************************************************************************)
(* Parser state threaded through the member functions                      *)
(***************************************************************************)
Live(p) == p.halt = ""

\* the process stops here: "hang" (a loop that cannot make progress),
\* "abort" (LCC_ASSERT / LCC_UNREACHABLE), "crash" (a read outside mapped
\* memory)
Halt(p, why) == IF Live(p) THEN [p EXCEPT !.halt = why] ELSE p

UB(p) == IF Live(p) THEN [p EXCEPT !.ub = TRUE] ELSE p

LOGE(p) == IF Live(p) THEN [p EXCEPT !.diag = @ + 1] ELSE p

LogEv(p, e) == IF Live(p) THEN [p EXCEPT !.log = Append(@, e)] ELSE p

\* an event of the history: what happened (a scope operation, or a point a
\* member function reached), the name it concerns, and the cursor and the
\* scope table right after it
Note(p, op, name) ==
  LogEv(p, [op |-> op, name |-> name, cur |-> p.cur, depth |-> Len(p.scope),
            scope |-> p.scope])

\* reading a token through an iterator at index i >= mTokEnd: undefined
\* behaviour, recorded in the history
ReadPastEnd(p, i) ==
  LogEv(UB(p), [op |-> "readPastEnd", name |-> "", cur |-> i,
                depth |-> Len(p.scope), scope |-> p.scope])

\* it-> for an iterator at index i
DerefAt(p, i) ==
  IF i \in 1..Len(mTokens) THEN p
  ELSE IF i - Len(mTokens) \in 1..Len(mPast) THEN ReadPastEnd(p, i)
  ELSE Halt(ReadPastEnd(p, i), "crash")

\* mTokCursor-> : reading through the cursor
Deref(p) == DerefAt(p, p.cur)

Kind(p) == TokAt(p.cur).k
getContent(p) == TokAt(p.cur).v

SetCursor(p, c) == IF Live(p) THEN [p EXCEPT !.cur = c] ELSE p
Advance(p) == SetCursor(p, p.cur + 1)

Ok(p, n) == [p |-> p, ok |-> TRUE, n |-> n]
Miss(p) == [p |-> p, ok |-> FALSE, n |-> [t |-> "nullopt"]]
Garbage == [t |-> "indeterminate"]

\* *opt on a std::optional, *ptr on a unique_ptr: the value when there is
\* one, otherwise undefined behaviour that yields an indeterminate node
Star(r) == IF r.ok THEN r ELSE [p |-> UB(r.p), ok |-> TRUE, n |-> Garbage]

\* the same in the parse function fn, with the dereference of an empty
\* value recorded
StarIn(fn, r) ==
  IF r.ok THEN r ELSE Star([r EXCEPT !.p = Note(r.p, "derefEmpty", fn)])

(***************************************************************************)
(* Token view                                                              *)
(***************************************************************************)
Match(p, tokenType) ==
  LET q == Deref(p)
  IN  IF Kind(q) = tokenType THEN [p |-> Advance(q), b |-> TRUE]
      ELSE [p |-> LOGE(q), b |-> FALSE]

Expect(p, tokenType) ==
  LET q == Deref(p)
  IN  IF Kind(q) = tokenType THEN [p |-> q, b |-> TRUE]
      ELSE [p |-> LOGE(q), b |-> FALSE]

Consume(p, tokenType) ==
  LET q == Deref(p)
  IN  IF Kind(q) = tokenType THEN [p |-> Advance(q), b |-> TRUE]
      ELSE [p |-> LOGE(q), b |-> FALSE]

ConsumeAny(p) == Advance(p)

Peek(p, tokenType) ==
  LET q == IF p.cur >= TokEnd THEN LOGE(p) ELSE p
      d == Deref(q)
  IN  [p |-> d, b |-> Kind(d) = tokenType]

\* Peek(k1) || Peek(k2) || ... with C++ short-circuit evaluation
RECURSIVE PeekAny(_, _)
PeekAny(p, kinds) ==
  IF kinds = <<>> THEN [p |-> p, b |-> FALSE]
  ELSE LET a == Peek(p, Head(kinds))
       IN  IF a.b THEN a ELSE PeekAny(a.p, Tail(kinds))

PeekN(p, n, tokenType) ==
  IF n = 0 THEN Peek(p, tokenType)
  ELSE LET q == IF p.cur + n >= TokEnd THEN LOGE(p) ELSE p
           d == Deref([q EXCEPT !.cur = p.cur + n])
           back == [d EXCEPT !.cur = p.cur]
       IN  [p |-> back, b |-> TokAt(p.cur + n).k = tokenType]

(***************************************************************************)
(* Scope table                                                             *)
(***************************************************************************)
EmptyFrame == <<>>

\* std::unordered_map::emplace: no effect when the key is present
Emplace(frame, name, isTypedef) ==
  IF name \in DOMAIN frame THEN frame ELSE frame @@ (name :> isTypedef)

ScopeAddTypedef(scope, name) ==
  [scope EXCEPT ![Len(scope)] = Emplace(@, name, TRUE)]

ScopeAddToScope(scope, name) ==
  [scope EXCEPT ![Len(scope)] = Emplace(@, name, FALSE)]

ScopePush(scope) == Append(scope, EmptyFrame)

ScopePop(scope) == SubSeq(scope, 1, Len(scope) - 1)

\* Scope::isTypedef: any frame, outermost first, binds name as a typedef
isTypedef(scope, name) ==
  \E i \in 1..Len(scope) : name \in DOMAIN scope[i] /\ scope[i][name]

\* Scope::isTypedefInScope: reverse iteration, the first frame that binds
\* name decides
RECURSIVE isTypedefInScopeFrom(_, _, _)
isTypedefInScopeFrom(scope, name, i) ==
  IF i = 0 THEN FALSE
  ELSE IF name \in DOMAIN scope[i] THEN scope[i][name]
  ELSE isTypedefInScopeFrom(scope, name, i - 1)

\* the lookup with begin()/end() in place of rbegin()/rend(): the outermost
\* frame that binds name decides
RECURSIVE isTypedefOutermostFrom(_, _, _)
isTypedefOutermostFrom(scope, name, i) ==
  IF i > Len(scope) THEN FALSE
  ELSE IF name \in DOMAIN scope[i] THEN scope[i][name]
  ELSE isTypedefOutermostFrom(scope, name, i + 1)

isTypedefInScopeOutermost(scope, name) ==
  isTypedefOutermostFrom(scope, name, 1)

isTypedefInScope(scope, name) == isTypedefInScopeFrom(scope, name, Len(scope))

\* the member functions as they act on the parser state
addTypedef(p, name) ==
  IF ~Live(p) THEN p
  ELSE IF p.scope = <<>> THEN UB(p)
  ELSE Note([p EXCEPT !.scope = ScopeAddTypedef(@, name)], "addTypedef", name)

addToScope(p, name) ==
  IF ~Live(p) THEN p
  ELSE IF p.scope = <<>> THEN UB(p)
  ELSE Note([p EXCEPT !.scope = ScopeAddToScope(@, name)], "addToScope", name)

pushScope(p) ==
  IF ~Live(p) THEN p
  ELSE Note([p EXCEPT !.scope = ScopePush(@)], "pushScope", "")

\* popScope that leaves the frame on the stack
popScopeKeepsFrame(p) ==
  IF ~Live(p) THEN p ELSE Note(p, "popScope", "")

popScope(p) ==
  IF ~Live(p) THEN p
  ELSE IF p.scope = <<>> THEN UB(p)
  ELSE Note([p EXCEPT !.scope = ScopePop(@)], "popScope", "")

(***************************************************************************)
(* FIRST-set predicates and token classes                                  *)
(***************************************************************************)
\* the test without its last disjunct
IsAssignmentWithoutCaret(type) ==
  type \in {"equal", "plus_equal", "minus_equal", "star_equal", "slash_equal",
            "percent_equal", "less_less_equal", "greater_greater_equal",
            "amp_equal", "pipe_equal"}

IsAssignment(type) ==
  type \in {"equal", "plus_equal", "minus_equal", "star_equal", "slash_equal",
            "percent_equal", "less_less_equal", "greater_greater_equal",
            "amp_equal", "pipe_equal", "caret_equal"}

IsUnaryOp(tokenType) ==
  tokenType \in {"amp", "star", "plus", "minus", "tilde", "exclaim",
                 "plus_plus", "minus_minus"}

IsPostFixExpr(tokenType) ==
  tokenType \in {"l_paren", "l_square", "period", "arrow", "plus_plus",
                 "minus_minus", "identifier", "char_constant",
                 "numeric_constant"}

\* the keyword cases shared by both FIRST predicates
FirstSpecifierQualifierKeywords ==
  {"kw_void", "kw_char", "kw_short", "kw_int", "kw_long", "kw_float",
   "kw__Bool", "kw_double", "kw_signed", "kw_unsigned", "kw_enum",
   "kw_struct", "kw_union", "kw_const", "kw_restrict", "kw_volatile",
   "kw_inline"}

StorageClassKeywords ==
  {"kw_typedef", "kw_extern", "kw_static", "kw_auto", "kw_register"}

\* the test without its identifier case
IsFirstInDeclarationSpecifierKeyword(p) ==
  Kind(p) \in StorageClassKeywords \cup FirstSpecifierQualifierKeywords

IsFirstInDeclarationSpecifier(p) ==
  CASE Kind(p) \in StorageClassKeywords \cup FirstSpecifierQualifierKeywords
         -> TRUE
    [] Kind(p) = "identifier" -> isTypedefInScope(p.scope, getContent(p))
    [] OTHER -> FALSE

IsFirstInSpecifierQualifier(p) ==
  CASE Kind(p) \in FirstSpecifierQualifierKeywords -> TRUE
    [] Kind(p) = "identifier" -> isTypedefInScope(p.scope, getContent(p))
    [] OTHER -> FALSE

IsFirstInDeclaration(p) == IsFirstInDeclarationSpecifier(p)
IsFirstInParameterList(p) == IsFirstInDeclarationSpecifier(p)
IsFirstInParameterTypeList(p) == IsFirstInParameterList(p)
IsFirstInPointer(p) == Kind(p) = "star"
mFirstDirectAbstractDeclaratorSet == {"l_paren", "l_square"}
IsFirstInDirectAbstractDeclarator(p) ==
  Kind(p) \in mFirstDirectAbstractDeclaratorSet
IsFirstInAbstractDeclarator(p) ==
  IsFirstInPointer(p) \/ IsFirstInDirectAbstractDeclarator(p)

\* the test without its identifier case
IsFirstInTypeNameKeyword(p) == Kind(p) \in FirstSpecifierQualifierKeywords

IsFirstInTypeName(p) == IsFirstInSpecifierQualifier(p)

IsFirstInPrimaryExpr(p) ==
  Kind(p) \in {"l_paren", "identifier", "char_constant", "numeric_constant",
               "string_literal"}
IsFirstInPostFixExpr(p) == Kind(p) = "l_paren" \/ IsFirstInPrimaryExpr(p)
IsFirstInUnaryExpr(p) ==
  \/ IsFirstInPostFixExpr(p)
  \/ Kind(p) \in {"plus_plus", "minus_minus", "amp", "star", "plus", "minus",
                  "tilde", "exclaim", "kw_sizeof"}
IsFirstInCastExpr(p) == Kind(p) = "l_paren" \/ IsFirstInUnaryExpr(p)
\* IsFirstInMultiExpr .. IsFirstInConditionalExpr each return the next one
IsFirstInAssignmentExpr(p) == IsFirstInCastExpr(p)
IsFirstInExpr(p) == IsFirstInAssignmentExpr(p)

mFirstExpressionSet ==
  {"l_paren", "identifier", "numeric_constant", "char_constant",
   "string_literal", "plus_plus", "minus_minus", "minus", "plus", "amp",
   "tilde", "exclaim", "kw_sizeof"}
mFirstStatementSet ==
  {"kw_if", "kw_for", "l_brace", "kw_switch", "kw_continue", "kw_break",
   "kw_case", "kw_default", "identifier", "kw_do", "kw_while", "kw_return",
   "kw_goto", "semi"} \cup mFirstExpressionSet
IsFirstInStatement(p) == Kind(p) \in mFirstStatementSet \/ IsFirstInExpr(p)
IsFirstInBlockItem(p) == IsFirstInDeclaration(p) \/ IsFirstInStatement(p)

(***************************************************************************)
(* The member functions call each other recursively                        *)
(***************************************************************************)
RECURSIVE Call(_, _, _)

(***************************************************************************)
(* Expressions                                                             *)
(***************************************************************************)
\* a loop's result: the state after it and what it accumulated
Acc(p, arr) == [p |-> p, ok |-> TRUE, arr |-> arr]
AccMiss(p) == [p |-> p, ok |-> FALSE, arr |-> <<>>]

ParseExprLoop(p, expressions) ==
  IF ~Live(p) THEN Acc(p, expressions)
  ELSE LET pk == Peek(p, "comma")
       IN  IF ~pk.b THEN Acc(pk.p, expressions)
           ELSE LET c == Consume(pk.p, "comma").p
                    assignment == Call("ParseAssignExpr", c, <<>>)
                IN  IF ~assignment.ok
                      THEN Acc(LOGE(assignment.p), expressions)
                      ELSE Call("ParseExprLoop", assignment.p, <<Append(expressions, assignment.n)>>)

ParseExpr(p) ==
  LET assignment == Call("ParseAssignExpr", p, <<>>)
  IN  IF ~assignment.ok THEN Miss(assignment.p)
      ELSE LET l == Call("ParseExprLoop", assignment.p, <<<<assignment.n>>>>)
           IN  Ok(l.p, [t |-> "Expr", list |-> l.arr])

AssignmentOperator(kind) ==
  CASE kind = "equal" -> "Assign"
    [] kind = "plus_equal" -> "PlusAssign"
    [] kind = "minus_equal" -> "MinusAssign"
    [] kind = "slash_equal" -> "DivideAssign"
    [] kind = "star_equal" -> "MultiplyAssign"
    [] kind = "percent_equal" -> "ModuloAssign"
    [] kind = "less_less_equal" -> "LeftShiftAssign"
    [] kind = "greater_greater_equal" -> "RightShiftAssign"
    [] kind = "amp_equal" -> "BitAndAssign"
    [] kind = "pipe_equal" -> "BitOrAssign"
    [] kind = "caret_equal" -> "BitXorAssign"
    [] OTHER -> "Assign"

ParseAssignExprLoop(p, list) ==
  IF ~Live(p) THEN Acc(p, list)
  ELSE LET d == Deref(p)
       IN  IF ~IsAssignment(Kind(d)) THEN Acc(d, list)
           ELSE LET q == ConsumeAny(d)
                    conditional == Call("ParseConditionalExpr", q, <<>>)
                    e == IF conditional.ok THEN conditional.p
                         ELSE LOGE(conditional.p)
                    v == StarIn("ParseAssignExpr", [conditional EXCEPT !.p = e])
                IN  Call("ParseAssignExprLoop", v.p, <<Append(list, <<AssignmentOperator(Kind(d)), v.n>>)>>)

ParseAssignExpr(p) ==
  LET result == Call("ParseConditionalExpr", p, <<>>)
      e == IF result.ok THEN result.p ELSE LOGE(result.p)
      l == Call("ParseAssignExprLoop", e, <<<<>>>>)
      v == StarIn("ParseAssignExpr", [result EXCEPT !.p = l.p])
  IN  Ok(v.p, [t |-> "AssignExpr", cond |-> v.n, list |-> l.arr])

ParseConditionalExpr(p) ==
  LET logOrExpr == Call("ParseLogOrExpr", p, <<>>)
  IN  IF ~logOrExpr.ok THEN Miss(LOGE(logOrExpr.p))
      ELSE LET pk == Peek(logOrExpr.p, "question")
           IN  IF ~pk.b
                 THEN Ok(pk.p, [t |-> "ConditionalExpr", logOr |-> logOrExpr.n])
                 ELSE LET c == Consume(pk.p, "question").p
                          expr == Call("ParseExpr", c, <<>>)
                      IN  IF ~expr.ok THEN Miss(LOGE(expr.p))
                          ELSE LET m == Match(expr.p, "colon").p
                                   optionalConditional ==
                                     Call("ParseConditionalExpr", m, <<>>)
                               IN  IF ~optionalConditional.ok
                                     THEN Miss(LOGE(optionalConditional.p))
                                     ELSE Ok(optionalConditional.p,
                                             [t |-> "ConditionalExpr",
                                              logOr |-> logOrExpr.n,
                                              expr |-> expr.n,
                                              cond |-> optionalConditional.n])

ParseLogOrExprLoop(p, arr) ==
  IF ~Live(p) THEN Acc(p, arr)
  ELSE LET pk == Peek(p, "pipe_pipe")
       IN  IF ~pk.b THEN Acc(pk.p, arr)
           ELSE LET c == Consume(pk.p, "pipe_pipe").p
                    logAndExpr == Call("ParseLogAndExpr", c, <<>>)
                IN  IF ~logAndExpr.ok THEN Acc(logAndExpr.p, arr)
                    ELSE Call("ParseLogOrExprLoop", logAndExpr.p, <<Append(arr, logAndExpr.n)>>)

ParseLogOrExpr(p) ==
  LET expr == Call("ParseLogAndExpr", p, <<>>)
  IN  IF ~expr.ok THEN Miss(expr.p)
      ELSE LET l == Call("ParseLogOrExprLoop", expr.p, <<<<>>>>)
           IN  Ok(l.p, [t |-> "LogOrExpr", first |-> expr.n, rest |-> l.arr])

ParseLogAndExprLoop(p, arr) ==
  IF ~Live(p) THEN Acc(p, arr)
  ELSE LET pk == Peek(p, "amp_amp")
       IN  IF ~pk.b THEN Acc(pk.p, arr)
           ELSE LET c == Consume(pk.p, "amp_amp").p
                    bitOrExpr == Call("ParseBitOrExpr", c, <<>>)
                IN  IF ~bitOrExpr.ok THEN AccMiss(bitOrExpr.p)
                    ELSE Call("ParseLogAndExprLoop", bitOrExpr.p, <<Append(arr, bitOrExpr.n)>>)

ParseLogAndExpr(p) ==
  LET expr == Call("ParseBitOrExpr", p, <<>>)
      l == Call("ParseLogAndExprLoop", expr.p, <<<<>>>>)
  IN  IF ~l.ok THEN Miss(l.p)
      ELSE LET v == StarIn("ParseLogAndExpr", [expr EXCEPT !.p = l.p])
           IN  Ok(v.p, [t |-> "LogAndExpr", first |-> v.n, rest |-> l.arr])

ParseBitOrExprLoop(p, arr) ==
  IF ~Live(p) THEN Acc(p, arr)
  ELSE LET pk == Peek(p, "pipe")
       IN  IF ~pk.b THEN Acc(pk.p, arr)
           ELSE LET c == Consume(pk.p, "pipe").p
                    newXor == Call("ParseBitXorExpr", c, <<>>)
                IN  IF ~newXor.ok THEN Acc(newXor.p, arr)
                    ELSE Call("ParseBitOrExprLoop", newXor.p, <<Append(arr, newXor.n)>>)

ParseBitOrExpr(p) ==
  LET expr == Call("ParseBitXorExpr", p, <<>>)
  IN  IF ~expr.ok THEN Miss(expr.p)
      ELSE LET l == Call("ParseBitOrExprLoop", expr.p, <<<<>>>>)
           IN  Ok(l.p, [t |-> "BitOrExpr", first |-> expr.n, rest |-> l.arr])

ParseBitXorExprLoop(p, arr) ==
  IF ~Live(p) THEN Acc(p, arr)
  ELSE LET pk == Peek(p, "caret")
       IN  IF ~pk.b THEN Acc(pk.p, arr)
           ELSE LET c == Consume(pk.p, "caret").p
                    newAnd == Call("ParseBitAndExpr", c, <<>>)
                IN  IF ~newAnd.ok THEN Acc(newAnd.p, arr)
                    ELSE Call("ParseBitXorExprLoop", newAnd.p, <<Append(arr, newAnd.n)>>)

ParseBitXorExpr(p) ==
  LET expr == Call("ParseBitAndExpr", p, <<>>)
  IN  IF ~expr.ok THEN Miss(expr.p)
      ELSE LET l == Call("ParseBitXorExprLoop", expr.p, <<<<>>>>)
           IN  Ok(l.p, [t |-> "BitXorExpr", first |-> expr.n, rest |-> l.arr])

ParseBitAndExprLoop(p, arr) ==
  IF ~Live(p) THEN Acc(p, arr)
  ELSE LET pk == Peek(p, "amp")
       IN  IF ~pk.b THEN Acc(pk.p, arr)
           ELSE LET c == Consume(pk.p, "amp").p
                    newEqual == Call("ParseEqualExpr", c, <<>>)
                IN  IF ~newEqual.ok THEN Acc(newEqual.p, arr)
                    ELSE Call("ParseBitAndExprLoop", newEqual.p, <<Append(arr, newEqual.n)>>)

ParseBitAndExpr(p) ==
  LET expr == Call("ParseEqualExpr", p, <<>>)
  IN  IF ~expr.ok THEN Miss(expr.p)
      ELSE LET l == Call("ParseBitAndExprLoop", expr.p, <<<<>>>>)
           IN  Ok(l.p, [t |-> "BitAndExpr", first |-> expr.n, rest |-> l.arr])

ParseEqualExprLoop(p, arr) ==
  IF ~Live(p) THEN Acc(p, arr)
  ELSE LET pk == PeekAny(p, <<"equal_equal", "exclaim_equal">>)
       IN  IF ~pk.b THEN Acc(pk.p, arr)
           ELSE LET binaryOperator ==
                      IF Kind(pk.p) = "equal_equal" THEN "Equal"
                      ELSE "NotEqual"
                    c == ConsumeAny(pk.p)
                    newRelational == Call("ParseRelationalExpr", c, <<>>)
                IN  IF ~newRelational.ok THEN Acc(newRelational.p, arr)
                    ELSE Call("ParseEqualExprLoop", newRelational.p, <<Append(arr, <<binaryOperator, newRelational.n>>)>>)

ParseEqualExpr(p) ==
  LET result == Call("ParseRelationalExpr", p, <<>>)
  IN  IF ~result.ok THEN Miss(result.p)
      ELSE LET l == Call("ParseEqualExprLoop", result.p, <<<<>>>>)
           IN  Ok(l.p, [t |-> "EqualExpr", first |-> result.n, rest |-> l.arr])

RelationalOperator(tokenType) ==
  CASE tokenType = "less" -> "LessThan"
    [] tokenType = "less_equal" -> "LessThanOrEqual"
    [] tokenType = "greater" -> "GreaterThan"
    [] tokenType = "greater_equal" -> "GreaterThanOrEqual"

ParseRelationalExprLoop(p, arr) ==
  IF ~Live(p) THEN Acc(p, arr)
  ELSE LET pk == PeekAny(p, <<"less", "less_equal", "greater",
                              "greater_equal">>)
       IN  IF ~pk.b THEN Acc(pk.p, arr)
           ELSE LET binaryOperator == RelationalOperator(Kind(pk.p))
                    c == ConsumeAny(pk.p)
                    newShift == Call("ParseShiftExpr", c, <<>>)
                IN  IF ~newShift.ok THEN Acc(newShift.p, arr)
                    ELSE Call("ParseRelationalExprLoop", newShift.p, <<Append(arr, <<binaryOperator, newShift.n>>)>>)

ParseRelationalExpr(p) ==
  LET result == Call("ParseShiftExpr", p, <<>>)
  IN  IF ~result.ok THEN Miss(result.p)
      ELSE LET l == Call("ParseRelationalExprLoop", result.p, <<<<>>>>)
           IN  Ok(l.p, [t |-> "RelationalExpr", first |-> result.n,
                        rest |-> l.arr])

ParseShiftExprLoop(p, arr) ==
  IF ~Live(p) THEN Acc(p, arr)
  ELSE LET pk == PeekAny(p, <<"less_less", "greater_greater">>)
       IN  IF ~pk.b THEN Acc(pk.p, arr)
           ELSE LET binaryOperator ==
                      IF Kind(pk.p) = "less_less" THEN "Left" ELSE "Right"
                    c == ConsumeAny(pk.p)
                    newAdd == Call("ParseAdditiveExpr", c, <<>>)
                IN  IF ~newAdd.ok THEN Acc(newAdd.p, arr)
                    ELSE Call("ParseShiftExprLoop", newAdd.p, <<Append(arr, <<binaryOperator, newAdd.n>>)>>)

ParseShiftExpr(p) ==
  LET result == Call("ParseAdditiveExpr", p, <<>>)
  IN  IF ~result.ok THEN Miss(result.p)
      ELSE LET l == Call("ParseShiftExprLoop", result.p, <<<<>>>>)
           IN  Ok(l.p, [t |-> "ShiftExpr", first |-> result.n, rest |-> l.arr])

ParseAdditiveExprLoop(p, arr) ==
  IF ~Live(p) THEN Acc(p, arr)
  ELSE LET pk == PeekAny(p, <<"plus", "minus">>)
       IN  IF ~pk.b THEN Acc(pk.p, arr)
           ELSE LET binaryOperator ==
                      IF Kind(pk.p) = "plus" THEN "Plus" ELSE "Minus"
                    c == ConsumeAny(pk.p)
                    newMul == Call("ParseMultiExpr", c, <<>>)
                IN  IF ~newMul.ok THEN Acc(newMul.p, arr)
                    ELSE Call("ParseAdditiveExprLoop", newMul.p, <<Append(arr, <<binaryOperator, newMul.n>>)>>)

ParseAdditiveExpr(p) ==
  LET result == Call("ParseMultiExpr", p, <<>>)
  IN  IF ~result.ok THEN Miss(result.p)
      ELSE LET l == Call("ParseAdditiveExprLoop", result.p, <<<<>>>>)
           IN  Ok(l.p, [t |-> "AdditiveExpr", first |-> result.n,
                        rest |-> l.arr])

\* the multiplicative table with Divide and Modulo exchanged
MultiOperatorSwapped(tokenType) ==
  CASE tokenType = "star" -> "Multiply"
    [] tokenType = "slash" -> "Modulo"
    [] tokenType = "percent" -> "Divide"

MultiOperator(tokenType) ==
  CASE tokenType = "star" -> "Multiply"
    [] tokenType = "slash" -> "Divide"
    [] tokenType = "percent" -> "Modulo"

ParseMultiExprLoop(p, arr) ==
  IF ~Live(p) THEN Acc(p, arr)
  ELSE LET pk == PeekAny(p, <<"star", "slash", "percent">>)
       IN  IF ~pk.b THEN Acc(pk.p, arr)
           ELSE LET binaryOperator == MultiOperator(Kind(pk.p))
                    c == ConsumeAny(pk.p)
                    newCast == Call("ParseCastExpr", c, <<>>)
                IN  IF ~newCast.ok THEN Acc(newCast.p, arr)
                    ELSE Call("ParseMultiExprLoop", newCast.p, <<Append(arr, <<binaryOperator, newCast.n>>)>>)

ParseMultiExpr(p) ==
  LET result == Call("ParseCastExpr", p, <<>>)
  IN  IF ~result.ok THEN Miss(LOGE(result.p))
      ELSE LET l == Call("ParseMultiExprLoop", result.p, <<<<>>>>)
           IN  Ok(l.p, [t |-> "MultiExpr", first |-> result.n, rest |-> l.arr])

\* Syntax::SpecifierQualifiers::isEmpty / DeclarationSpecifiers::isEmpty
isEmpty(specifiers) ==
  /\ specifiers.storage = <<>>
  /\ specifiers.quals = <<>>
  /\ specifiers.types = <<>>

Null == [t |-> "nullptr"]

ParseTypeName(p) ==
  LET specifierQualifiers == Call("ParseSpecifierQualifierList", p, <<>>)
      q == specifierQualifiers.p
  IN  IF isEmpty(specifierQualifiers.n) THEN Miss(LOGE(q))
      ELSE IF IsFirstInAbstractDeclarator(Deref(q))
        THEN LET abstractDec == StarIn("ParseTypeName", Call("ParseAbstractDeclarator", Deref(q), <<>>))
             IN  Ok(abstractDec.p,
                    [t |-> "TypeName", specs |-> specifierQualifiers.n,
                     abstract |-> abstractDec.n])
        ELSE Ok(Deref(q), [t |-> "TypeName", specs |-> specifierQualifiers.n,
                           abstract |-> Null])

ParseCastExpr(p) ==
  IF ~Live(p) THEN Miss(p)
  ELSE
  LET start == p.cur
      pk == Peek(p, "l_paren")
  IN  IF ~pk.b
        THEN LET unary == Call("ParseUnaryExpr", pk.p, <<>>)
             IN  IF ~unary.ok THEN Miss(LOGE(unary.p))
                 ELSE Ok(unary.p, [t |-> "CastExpr", unary |-> unary.n])
        ELSE LET m == Deref(Match(pk.p, "l_paren").p)
             IN  IF ~IsFirstInTypeName(m)
                   THEN LET unary == Call("ParseUnaryExpr", Note(SetCursor(m, start), "CastExprUnary", ""), <<>>)
                        IN  IF ~unary.ok THEN Miss(LOGE(unary.p))
                            ELSE Ok(unary.p,
                                    [t |-> "CastExpr", unary |-> unary.n])
                   ELSE LET typeName == Call("ParseTypeName", Note(m, "CastExprTypeName", ""), <<>>)
                            e1 == IF typeName.ok THEN typeName.p
                                  ELSE LOGE(typeName.p)
                            r == Match(e1, "r_paren").p
                            cast == Call("ParseCastExpr", r, <<>>)
                            e2 == IF cast.ok THEN cast.p ELSE LOGE(cast.p)
                            tv == StarIn("ParseCastExpr", [typeName EXCEPT !.p = e2])
                            cv == StarIn("ParseCastExpr", [cast EXCEPT !.p = tv.p])
                        IN  Ok(cv.p, [t |-> "CastExpr", typeName |-> tv.n,
                                      cast |-> cv.n])

UnaryOperator(tokenType) ==
  CASE tokenType = "amp" -> "Ampersand"
    [] tokenType = "star" -> "Asterisk"
    [] tokenType = "plus" -> "Plus"
    [] tokenType = "minus" -> "Minus"
    [] tokenType = "tilde" -> "BitNot"
    [] tokenType = "exclaim" -> "LogicalNot"
    [] tokenType = "plus_plus" -> "Increment"
    [] tokenType = "minus_minus" -> "Decrement"

ParseUnaryExpr(p) ==
  IF ~Live(p) THEN Miss(p)
  ELSE
  LET pk == Peek(p, "kw_sizeof")
  IN  IF pk.b
        THEN LET c == Consume(pk.p, "kw_sizeof").p
                 lp == Peek(c, "l_paren")
             IN  IF lp.b
                   THEN LET type == Call("ParseTypeName", Consume(lp.p, "l_paren").p, <<>>)
                        IN  IF ~type.ok THEN Miss(type.p)
                            ELSE Ok(ConsumeAny(Expect(type.p, "r_paren").p),
                                    [t |-> "UnaryExprSizeOf",
                                     typeName |-> type.n])
                   ELSE LET unary == Call("ParseUnaryExpr", lp.p, <<>>)
                        IN  IF ~unary.ok THEN Miss(unary.p)
                            ELSE Ok(unary.p, [t |-> "UnaryExprSizeOf",
                                              unary |-> unary.n])
      ELSE LET d == Deref(pk.p)
           IN  IF IsUnaryOp(Kind(d))
                 THEN LET castExpr == Call("ParseCastExpr", ConsumeAny(d), <<>>)
                      IN  IF ~castExpr.ok THEN Miss(castExpr.p)
                          ELSE Ok(castExpr.p,
                                  [t |-> "UnaryExprUnaryOperator",
                                   op |-> UnaryOperator(Kind(d)),
                                   cast |-> castExpr.n])
                 ELSE LET postFix == Call("ParsePostFixExpr", d, <<>>)
                      IN  IF ~postFix.ok THEN Miss(postFix.p)
                          ELSE Ok(postFix.p, [t |-> "UnaryExprPostFixExpr",
                                              postFix |-> postFix.n])

\* a unique_ptr: engaged with a node, or null
Ptr(n) == [ok |-> TRUE, n |-> n]
NullPtr == [ok |-> FALSE, n |-> Null]
PtrNode(ptr) == IF ptr.ok THEN ptr.n ELSE Null

\* the while (!Peek(tok::r_paren)) loop of a call's arguments
ParsePostFixExprArgs(p, params) ==
  IF ~Live(p) THEN Acc(p, params)
  ELSE LET pk == Peek(p, "r_paren")
       IN  IF pk.b THEN Acc(pk.p, params)
           ELSE LET m == Match(pk.p, "comma").p
                    assignment == Call("ParseAssignExpr", m, <<>>)
                    e == IF assignment.ok THEN assignment.p
                         ELSE LOGE(assignment.p)
                    v == StarIn("ParsePostFixExprSuffix", [assignment EXCEPT !.p = e])
                IN  IF Live(v.p) /\ v.p.cur = p.cur
                      THEN Acc(Halt(v.p, "hang"), params)
                      ELSE Call("ParsePostFixExprArgs", v.p, <<Append(params, v.n)>>)

ParsePostFixExprSuffix(p, current) ==
  IF ~Live(p) THEN [p |-> p, current |-> current]
  ELSE
  LET d == Deref(p)
      tokType == Kind(d)
  IN  IF ~Live(d) \/ ~IsPostFixExpr(tokType) THEN [p |-> d, current |-> current]
      ELSE CASE tokType = "l_paren" ->
             LET c == Consume(d, "l_paren").p
                 pk == Peek(c, "r_paren")
                 first ==
                   IF pk.b THEN Acc(pk.p, <<>>)
                   ELSE LET assignment == Call("ParseAssignExpr", pk.p, <<>>)
                            e == IF assignment.ok THEN assignment.p
                                 ELSE LOGE(assignment.p)
                            v == StarIn("ParsePostFixExprSuffix", [assignment EXCEPT !.p = e])
                        IN  Acc(v.p, <<v.n>>)
                 rest == Call("ParsePostFixExprArgs", first.p, <<first.arr>>)
                 r == Consume(rest.p, "r_paren").p
             IN  Call("ParsePostFixExprSuffix", r, <<IF current.ok THEN Ptr([t |-> "PostFixExprFuncCall", postFix |-> current.n, params |-> rest.arr]) ELSE current>>)
        [] tokType = "l_square" ->
             LET c == Consume(d, "l_square").p
                 expr == Call("ParseExpr", c, <<>>)
                 e == IF expr.ok THEN expr.p ELSE LOGE(expr.p)
                 m == Match(e, "r_square").p
                 v == StarIn("ParsePostFixExprSuffix", [expr EXCEPT !.p = m])
             IN  IF current.ok
                   THEN Call("ParsePostFixExprSuffix", v.p, <<Ptr([t |-> "PostFixExprSubscript", postFix |-> current.n, expr |-> v.n])>>)
                   ELSE Call("ParsePostFixExprSuffix", m, <<current>>)
        [] tokType = "plus_plus" ->
             Call("ParsePostFixExprSuffix", Consume(d, "plus_plus").p, <<Ptr([t |-> "PostFixExprIncrement", postFix |-> PtrNode(current)])>>)
        [] tokType = "minus_minus" ->
             Call("ParsePostFixExprSuffix", Consume(d, "minus_minus").p, <<Ptr([t |-> "PostFixExprDecrement", postFix |-> PtrNode(current)])>>)
        [] tokType = "period" ->
             LET c == Expect(Consume(d, "period").p, "identifier").p
             IN  Call("ParsePostFixExprSuffix", Match(c, "identifier").p, <<Ptr([t |-> "PostFixExprDot", postFix |-> PtrNode(current), name |-> getContent(c)])>>)
        [] tokType = "arrow" ->
             LET c == Expect(Consume(d, "arrow").p, "identifier").p
             IN  Call("ParsePostFixExprSuffix", Match(c, "identifier").p, <<Ptr([t |-> "PostFixExprArrow", postFix |-> PtrNode(current), name |-> getContent(c)])>>)
        \* identifier, char_constant, numeric_constant: no branch takes the
        \* token, and the loop condition stays true
        [] OTHER -> [p |-> Halt(d, "hang"), current |-> current]

\* the state after "if (!r) LOGE(...)" for a parse result r
OrLOGE(r) == IF r.ok THEN r.p ELSE LOGE(r.p)

\* if (Peek(tokenType)) Consume(tokenType)
ConsumeIfPeek(p, tokenType) ==
  LET pk == Peek(p, tokenType)
  IN  IF pk.b THEN Consume(pk.p, tokenType).p ELSE pk.p

\* the value of newPrimary and of current before the suffixes
PostFixHead(p, newPrimary, current) ==
  [p |-> p, newPrimary |-> newPrimary, current |-> current]

\* ( type-name ) { initializer-list ,opt } after the l_paren
ParseTypeInitializer(c) ==
  LET type == Call("ParseTypeName", c, <<>>)
      b == Consume(Match(OrLOGE(type), "r_paren").p, "l_brace").p
      initializer == Call("ParseInitializerList", b, <<>>)
      rb == Match(ConsumeIfPeek(OrLOGE(initializer), "comma"), "r_brace").p
      tv == StarIn("ParsePostFixExpr", [type EXCEPT !.p = rb])
      iv == StarIn("ParsePostFixExpr", [initializer EXCEPT !.p = tv.p])
  IN  PostFixHead(iv.p, NullPtr,
                  Ptr([t |-> "PostFixExprTypeInitializer",
                       typeName |-> tv.n, init |-> iv.n]))

\* ( expression ) after the l_paren
ParsePrimaryExprParent(c) ==
  LET expr == Call("ParseExpr", c, <<>>)
      v == StarIn("ParsePostFixExpr", [expr EXCEPT !.p = Match(OrLOGE(expr), "r_paren").p])
  IN  PostFixHead(v.p, Ptr([t |-> "PrimaryExprParent", expr |-> v.n]),
                  NullPtr)

ParsePostFixExprHead(p) ==
  LET a1 == Peek(p, "identifier")
      a2 == PeekAny(a1.p, <<"char_constant", "numeric_constant",
                            "string_literal">>)
      a3 == Peek(a2.p, "l_paren")
      c == Deref(Consume(a3.p, "l_paren").p)
  IN  IF a1.b
        THEN PostFixHead(Consume(a1.p, "identifier").p,
                         Ptr([t |-> "PrimaryExprIdent",
                              name |-> getContent(a1.p)]),
                         NullPtr)
      ELSE IF a2.b
        THEN PostFixHead(ConsumeAny(a2.p),
                         Ptr([t |-> "PrimaryExprConstant",
                              value |-> getContent(a2.p)]),
                         NullPtr)
      ELSE IF a3.b
        THEN IF IsFirstInTypeName(c) THEN ParseTypeInitializer(c)
             ELSE ParsePrimaryExprParent(c)
      ELSE PostFixHead(LOGE(a3.p), NullPtr, NullPtr)

\* return std::move(*current) after the suffixes, s = [p, current]
ReturnCurrent(s) ==
  LET e == IF s.current.ok THEN s.p ELSE LOGE(s.p)
      v == StarIn("ParsePostFixExpr", [p |-> e, ok |-> s.current.ok, n |-> s.current.n])
  IN  Ok(v.p, v.n)

ParsePostFixExpr(p) ==
  IF ~Live(p) THEN Miss(p)
  ELSE
  LET head == ParsePostFixExprHead(p)
      current == IF head.newPrimary.ok
                   THEN Ptr([t |-> "PostFixExprPrimaryExpr",
                             primary |-> head.newPrimary.n])
                   ELSE head.current
  IN  ReturnCurrent(Call("ParsePostFixExprSuffix", head.p, <<current>>))

(***************************************************************************)
(* Declaration specifiers                                                  *)
(***************************************************************************)
EmptySpecifiers == [storage |-> <<>>, quals |-> <<>>, types |-> <<>>]

StorageClassSpecifier(kind) ==
  CASE kind = "kw_auto" -> "Auto"
    [] kind = "kw_register" -> "Register"
    [] kind = "kw_static" -> "Static"
    [] kind = "kw_extern" -> "Extern"
    [] kind = "kw_typedef" -> "Typedef"

TypeQualifier(kind) ==
  CASE kind = "kw_volatile" -> "Volatile"
    [] kind = "kw_const" -> "Const"
    [] kind = "kw_restrict" -> "Restrict"

PrimitiveTypeSpecifier(kind) ==
  CASE kind = "kw_void" -> "Void"
    [] kind = "kw_char" -> "Char"
    [] kind = "kw_short" -> "Short"
    [] kind = "kw_int" -> "Int"
    [] kind = "kw_long" -> "Long"
    [] kind = "kw_float" -> "Float"
    [] kind = "kw_double" -> "Double"
    [] kind = "kw_signed" -> "Signed"
    [] kind = "kw_unsigned" -> "Unsigned"

\* the keywords with a case in the switch of the two specifier loops
StorageCases ==
  {"kw_auto", "kw_register", "kw_static", "kw_extern", "kw_typedef"}
QualifierCases == {"kw_volatile", "kw_const", "kw_restrict"}
PrimitiveCases ==
  {"kw_void", "kw_char", "kw_short", "kw_int", "kw_long", "kw_float",
   "kw_double", "kw_signed", "kw_unsigned"}

addStorageClassSpecifier(specs, x) == [specs EXCEPT !.storage = Append(@, x)]
addTypeQualifier(specs, x) == [specs EXCEPT !.quals = Append(@, x)]
addTypeSpecifier(specs, x) == [specs EXCEPT !.types = Append(@, x)]

\* case tok::identifier of the specifier loops: is the identifier taken as
\* a typedef-name
TakesTypedefName(p, seeTy) ==
  ~seeTy /\ isTypedefInScope(p.scope, getContent(p))

\* the specifier cases both loops share, from the token at d on
SpecifierCase(d, specs, seeTy, k) ==
  CASE k \in QualifierCases ->
         [p |-> Consume(d, k).p, more |-> TRUE, seeTy |-> seeTy,
          specs |-> addTypeQualifier(specs, TypeQualifier(k))]
    [] k \in PrimitiveCases ->
         [p |-> Consume(d, k).p, more |-> TRUE, seeTy |-> TRUE,
          specs |-> addTypeSpecifier(
                      specs, [t |-> "Primitive",
                              name |-> PrimitiveTypeSpecifier(k)])]
    [] k \in {"kw_union", "kw_struct"} ->
         LET expected == Call("ParseStructOrUnionSpecifier", d, <<>>)
             e == IF expected.ok THEN expected.p ELSE LOGE(expected.p)
             v == StarIn("ParseDeclarationSpecifiers", [expected EXCEPT !.p = e])
         IN  [p |-> v.p, more |-> TRUE, seeTy |-> TRUE,
              specs |-> addTypeSpecifier(specs, v.n)]
    [] k = "kw_enum" ->
         LET expected == Call("ParseEnumSpecifier", d, <<>>)
             e == IF expected.ok THEN expected.p ELSE LOGE(expected.p)
             v == StarIn("ParseDeclarationSpecifiers", [expected EXCEPT !.p = e])
         IN  [p |-> v.p, more |-> TRUE, seeTy |-> TRUE,
              specs |-> addTypeSpecifier(specs, v.n)]
    [] k = "identifier" ->
         IF TakesTypedefName(d, seeTy)
           THEN [p |-> Consume(d, "identifier").p, more |-> TRUE,
                 seeTy |-> seeTy,
                 specs |-> addTypeSpecifier(
                             specs, [t |-> "TypedefName",
                                     name |-> getContent(d)])]
           ELSE [p |-> d, more |-> FALSE, seeTy |-> seeTy, specs |-> specs]
    [] OTHER -> [p |-> d, more |-> FALSE, seeTy |-> seeTy, specs |-> specs]

ParseDeclarationSpecifiersLoop(p, specs, seeTy) ==
  IF ~Live(p) THEN Ok(p, specs)
  ELSE LET d == Deref(p)
           k == Kind(d)
           c == IF k \in StorageCases
                  THEN [p |-> Consume(d, k).p, more |-> TRUE, seeTy |-> seeTy,
                        specs |-> addStorageClassSpecifier(
                                    specs, StorageClassSpecifier(k))]
                  ELSE SpecifierCase(d, specs, seeTy, k)
       IN  IF c.more THEN Call("ParseDeclarationSpecifiersLoop", c.p, <<c.specs, c.seeTy>>)
           ELSE Ok(c.p, c.specs)

ParseDeclarationSpecifiers(p) ==
  Call("ParseDeclarationSpecifiersLoop", p, <<EmptySpecifiers, FALSE>>)

ParseSpecifierQualifierListLoop(p, specs, seeTy) ==
  IF ~Live(p) THEN Ok(p, specs)
  ELSE LET d == Deref(p)
           k == Kind(d)
           c == IF k \in StorageCases
                  THEN [p |-> d, more |-> FALSE, seeTy |-> seeTy,
                        specs |-> specs]
                  ELSE SpecifierCase(d, specs, seeTy, k)
       IN  IF c.more
             THEN Call("ParseSpecifierQualifierListLoop", c.p, <<c.specs, c.seeTy>>)
             ELSE Ok(c.p, c.specs)

ParseSpecifierQualifierList(p) ==
  Call("ParseSpecifierQualifierListLoop", p, <<EmptySpecifiers, FALSE>>)

(***************************************************************************)
(* struct, union and enum specifiers                                       *)
(***************************************************************************)
\* the value isUnion gets for the introducing keyword
IsUnionFor(keyword) ==
  CASE keyword = "kw_union" -> TRUE
    [] keyword = "kw_struct" -> TRUE

\* declarator { : constant }  { , declarator { : constant } }
ParseStructDeclarators(p, declarators) ==
  LET declarator == Call("ParseDeclarator", p, <<>>)
  IN  IF ~declarator.ok THEN AccMiss(LOGE(declarator.p))
      ELSE LET pk == Peek(declarator.p, "colon")
               constant == Call("ParseConditionalExpr", Consume(pk.p, "colon").p, <<>>)
               q == IF pk.b THEN constant.p ELSE pk.p
               item == [declarator |-> declarator.n,
                        bits |-> IF pk.b THEN constant.n
                                 ELSE [t |-> "nullopt"]]
               pc1 == Peek(q, "comma")
           IN  IF Live(pc1.p) /\ pc1.b
                 THEN Call("ParseStructDeclarators", Consume(pc1.p, "comma").p, <<Append(declarators, item)>>)
                 ELSE Acc(pc1.p, Append(declarators, item))

ParseStructDeclarations(p, structDeclarations) ==
  IF ~Live(p) \/ ~IsFirstInSpecifierQualifier(Deref(p))
    THEN Acc(Deref(p), structDeclarations)
  ELSE LET specifierQualifiers == Call("ParseSpecifierQualifierList", Deref(p), <<>>)
           e == IF isEmpty(specifierQualifiers.n)
                  THEN LOGE(specifierQualifiers.p)
                  ELSE specifierQualifiers.p
           declarators == Call("ParseStructDeclarators", e, <<<<>>>>)
       IN  IF ~declarators.ok THEN AccMiss(declarators.p)
           ELSE Call("ParseStructDeclarations", Match(declarators.p, "semi").p, <<Append(structDeclarations, [specs |-> specifierQualifiers.n, declarators |-> declarators.arr])>>)

ParseStructOrUnionSpecifier(p) ==
  LET pk == PeekAny(p, <<"kw_union", "kw_struct">>)
  IN  IF ~pk.b THEN Miss(LOGE(pk.p))
      ELSE
      LET isUnion == IsUnionFor(Kind(pk.p))
          c == ConsumeAny(pk.p)
          pi == Peek(c, "identifier")
          name == IF pi.b THEN getContent(pi.p) ELSE ""
          q == IF pi.b THEN Consume(pi.p, "identifier").p ELSE pi.p
          pb == Peek(q, "l_brace")
      IN  IF ~pb.b
            THEN IF name = "" THEN Miss(LOGE(pb.p))
                 ELSE Ok(pb.p, [t |-> "StructOrUnionSpecifier",
                                isUnion |-> isUnion, name |-> name,
                                declarations |-> <<>>])
            ELSE LET l == Call("ParseStructDeclarations", Consume(pb.p, "l_brace").p, <<<<>>>>)
                 IN  IF ~l.ok THEN Miss(l.p)
                     ELSE Ok(Match(l.p, "r_brace").p,
                             [t |-> "StructOrUnionSpecifier",
                              isUnion |-> isUnion, name |-> name,
                              declarations |-> l.arr])

ParseEnumerators(p, values) ==
  IF ~Live(p) THEN Acc(p, values)
  ELSE LET pk == Peek(p, "identifier")
       IN  IF ~pk.b THEN Acc(pk.p, values)
           ELSE LET e == Expect(pk.p, "identifier").p
                    valueName == getContent(e)
                    c == Consume(addToScope(e, valueName), "identifier").p
                    pe == Peek(c, "equal")
                    constant ==
                      Call("ParseConditionalExpr", Consume(pe.p, "equal").p, <<>>)
                    q == IF pe.b THEN constant.p ELSE pe.p
                    pc1 == Peek(q, "comma")
                    r == IF pc1.b THEN Consume(pc1.p, "comma").p ELSE pc1.p
                IN  Call("ParseEnumerators", r, <<Append(values, [name |-> valueName, value |-> IF pe.b THEN constant.n ELSE [t |-> "nullopt"]])>>)

ParseEnumDeclaration(p, enumName) ==
  LET c == Consume(Expect(p, "l_brace").p, "l_brace").p
      l == Call("ParseEnumerators", c, <<<<>>>>)
  IN  Ok(Match(l.p, "r_brace").p,
         [t |-> "EnumeratorList", name |-> enumName, values |-> l.arr])

ParseEnumSpecifier(p) ==
  LET c == Consume(Expect(p, "kw_enum").p, "kw_enum").p
      pi == Peek(c, "identifier")
      name == IF pi.b THEN getContent(pi.p) ELSE ""
      q == IF pi.b THEN Consume(pi.p, "identifier").p ELSE pi.p
      pb == Peek(q, "l_brace")
  IN  IF ~pb.b
        THEN Ok(IF name = "" THEN LOGE(pb.p) ELSE pb.p,
                [t |-> "EnumSpecifier", name |-> name])
        ELSE LET pb2 == Peek(pb.p, "l_brace")
                 declaration == Call("ParseEnumDeclaration", pb2.p, <<name>>)
             IN  Ok(declaration.p,
                    [t |-> "EnumSpecifier", list |-> declaration.n])

(***************************************************************************)
(* Declarators                                                             *)
(***************************************************************************)
\* LCC_ASSERT(cond) and LCC_UNREACHABLE: the process aborts when reached
\* with a false condition
LCC_ASSERT(p, cond) == IF cond THEN p ELSE Halt(p, "abort")
LCC_UNREACHABLE(p) == Halt(p, "abort")

PointerQualifiers == <<"kw_const", "kw_restrict", "kw_volatile">>

ParsePointerQualifiers(p, typeQualifier) ==
  IF ~Live(p) THEN Acc(p, typeQualifier)
  ELSE LET pk == PeekAny(p, PointerQualifiers)
       IN  IF ~pk.b THEN Acc(pk.p, typeQualifier)
           ELSE Call("ParsePointerQualifiers", ConsumeAny(pk.p), <<Append(typeQualifier, TypeQualifier(Kind(pk.p)))>>)

ParsePointer(p) ==
  LET c == Consume(Expect(p, "star").p, "star").p
      l == Call("ParsePointerQualifiers", c, <<<<>>>>)
  IN  Ok(l.p, [t |-> "Pointer", quals |-> l.arr])

\* while (Peek(tok::star)) pointers.push_back(ParsePointer())
ParsePointers(p, pointers) ==
  IF ~Live(p) THEN Acc(p, pointers)
  ELSE LET pk == Peek(p, "star")
       IN  IF ~pk.b THEN Acc(pk.p, pointers)
           ELSE LET result == Call("ParsePointer", pk.p, <<>>)
                IN  Call("ParsePointers", result.p, <<Append(pointers, result.n)>>)

ParseDeclarator(p) ==
  IF ~Live(p) THEN Miss(p)
  ELSE LET ptrs == Call("ParsePointers", p, <<<<>>>>)
           directDeclarator == Call("ParseDirectDeclarator", ptrs.p, <<>>)
       IN  IF ~directDeclarator.ok THEN Miss(LOGE(directDeclarator.p))
           ELSE Ok(directDeclarator.p,
                   [t |-> "Declarator", pointers |-> ptrs.arr,
                    direct |-> directDeclarator.n])

EmptyParamTypeList ==
  [t |-> "ParamTypeList", params |-> <<>>, hasEllipse |-> FALSE]

ParseDirectDeclaratorSuffix(p, directDeclarator) ==
  IF ~Live(p) THEN Miss(p)
  ELSE
  LET pk == PeekAny(p, <<"l_paren", "l_square">>)
  IN  IF ~pk.b
        THEN IF ~directDeclarator.ok THEN Miss(pk.p)
             ELSE Ok(pk.p, directDeclarator.n)
      ELSE IF Kind(pk.p) = "l_paren"
        THEN LET c == Deref(Consume(pk.p, "l_paren").p)
             IN  IF IsFirstInParameterTypeList(c)
                   THEN LET parameterTypeList == Call("ParseParameterTypeList", c, <<>>)
                        IN  IF ~parameterTypeList.ok
                              THEN Miss(parameterTypeList.p)
                              ELSE Call("ParseDirectDeclaratorSuffix", Match(parameterTypeList.p, "r_paren").p, <<Ptr([t |-> "DirectDeclaratorParentParamTypeList", direct |-> PtrNode(directDeclarator), params |-> parameterTypeList.n])>>)
                   ELSE LET pr == Peek(c, "r_paren")
                            e == IF pr.b THEN pr.p ELSE LOGE(pr.p)
                        IN  Call("ParseDirectDeclaratorSuffix", Match(e, "r_paren").p, <<Ptr([t |-> "DirectDeclaratorParentParamTypeList", direct |-> PtrNode(directDeclarator), params |-> EmptyParamTypeList])>>)
        ELSE LET c == Deref(LCC_ASSERT(Consume(pk.p, "l_square").p,
                                       directDeclarator.ok))
             IN  IF IsFirstInAssignmentExpr(c)
                   THEN LET assignment == Call("ParseAssignExpr", c, <<>>)
                            e == IF assignment.ok THEN assignment.p
                                 ELSE LOGE(assignment.p)
                            next == IF assignment.ok /\ directDeclarator.ok
                                      THEN Ptr([t |-> "DirectDeclaratorAssignExpr",
                                                direct |-> directDeclarator.n,
                                                assign |-> assignment.n])
                                      ELSE directDeclarator
                        IN  Call("ParseDirectDeclaratorSuffix", Match(e, "r_square").p, <<next>>)
                   ELSE Call("ParseDirectDeclaratorSuffix", Match(LOGE(c), "r_square").p, <<directDeclarator>>)

ParseDirectDeclarator(p) ==
  LET pi == Peek(p, "identifier")
  IN  IF pi.b
        THEN Call("ParseDirectDeclaratorSuffix", Consume(pi.p, "identifier").p, <<Ptr([t |-> "DirectDeclaratorIdent", name |-> getContent(pi.p)])>>)
      ELSE LET pl == Peek(pi.p, "l_paren")
           IN  IF pl.b
                 THEN LET declarator ==
                            Call("ParseDeclarator", Consume(pl.p, "l_paren").p, <<>>)
                          e == IF declarator.ok THEN declarator.p
                               ELSE LOGE(declarator.p)
                          v == StarIn("ParseDirectDeclarator", [declarator EXCEPT !.p = e])
                      IN  Call("ParseDirectDeclaratorSuffix", Match(v.p, "r_paren").p, <<Ptr([t |-> "DirectDeclaratorParent", declarator |-> v.n])>>)
                 ELSE Call("ParseDirectDeclaratorSuffix", LOGE(pl.p), <<NullPtr>>)

ParseParameterTypeList(p) ==
  LET parameterList ==
        Call("ParseParameterList", Note(p, "ParseParameterTypeList", ""), <<>>)
  IN  IF ~parameterList.ok THEN Miss(parameterList.p)
      ELSE LET pk == Peek(parameterList.p, "comma")
               q == IF pk.b
                      THEN Match(Consume(pk.p, "comma").p, "ellipsis").p
                      ELSE pk.p
           IN  Ok(Note(q, "EndParameterTypeList", ""),
                  [t |-> "ParamTypeList", params |-> parameterList.n,
                   hasEllipse |-> pk.b])

\* while (Peek(tok::comma) && !PeekN(1, tok::ellipsis))
ParseParameterListLoop(p, parameterDeclarations) ==
  IF ~Live(p) THEN Acc(p, parameterDeclarations)
  ELSE LET pk == Peek(p, "comma")
           pn == PeekN(pk.p, 1, "ellipsis")
       IN  IF ~pk.b THEN Acc(pk.p, parameterDeclarations)
           ELSE IF pn.b THEN Acc(pn.p, parameterDeclarations)
           ELSE LET declaration ==
                      Call("ParseParameterDeclaration", Consume(pn.p, "comma").p, <<>>)
                IN  IF ~declaration.ok THEN AccMiss(declaration.p)
                    ELSE Call("ParseParameterListLoop", declaration.p, <<Append(parameterDeclarations, declaration.n)>>)

ParseParameterList(p) ==
  LET declaration == Call("ParseParameterDeclaration", p, <<>>)
  IN  IF ~declaration.ok THEN Miss(declaration.p)
      ELSE LET l == Call("ParseParameterListLoop", declaration.p, <<<<declaration.n>>>>)
           IN  IF ~l.ok THEN Miss(l.p) ELSE Ok(l.p, l.arr)

\* std::find_if(first, mTokEnd, not a star), as an index; the search of an
\* iterator already behind mTokEnd never meets mTokEnd and reads on
RECURSIVE FindNotStar(_)
FindNotStar(i) ==
  IF i = TokEnd \/ i > Len(mTokens) + Len(mPast) THEN i
  ELSE IF TokAt(i).k = "star" THEN FindNotStar(i + 1)
  ELSE i

\* the while (result->getTokenKind() == tok::l_paren) result++ walk
RECURSIVE SkipParens(_)
SkipParens(i) ==
  IF i > Len(mTokens) + Len(mPast) THEN i
  ELSE IF TokAt(i).k = "l_paren" THEN SkipParens(i + 1)
  ELSE i

ParameterDeclaration(specs, kind, declarator) ==
  [t |-> "ParameterDeclaration", specs |-> specs, kind |-> kind,
   declarator |-> declarator]

ParseParameterDeclaration(p) ==
  IF ~Live(p) THEN Miss(p)
  ELSE
  LET declarationSpecifiers == Call("ParseDeclarationSpecifiers", p, <<>>)
      a == LCC_ASSERT(declarationSpecifiers.p,
                      ~isEmpty(declarationSpecifiers.n))
      result == FindNotStar(a.cur)
      hasStar == result > a.cur
      q == IF result = TokEnd /\ a.cur <= TokEnd THEN LCC_UNREACHABLE(a)
           ELSE DerefAt(a, result)
      asDeclarator(from) ==
        LET declarator == Call("ParseDeclarator", from, <<>>)
        IN  IF ~declarator.ok THEN Miss(declarator.p)
            ELSE Ok(declarator.p,
                    ParameterDeclaration(declarationSpecifiers.n,
                                         "Declarator", declarator.n))
      asAbstract(from) ==
        LET abstractDeclarator == Call("ParseAbstractDeclarator", from, <<>>)
        IN  IF ~abstractDeclarator.ok THEN Miss(abstractDeclarator.p)
            ELSE Ok(abstractDeclarator.p,
                    ParameterDeclaration(declarationSpecifiers.n,
                                         "AbstractDeclarator",
                                         abstractDeclarator.n))
  IN  IF ~Live(q) THEN Miss(q)
      ELSE CASE TokAt(result).k = "l_square" -> asAbstract(q)
             [] TokAt(result).k = "identifier" -> asDeclarator(q)
             [] TokAt(result).k = "l_paren" ->
                  LET inner == SkipParens(result + 1)
                      r == DerefAt(q, inner)
                  IN  IF ~Live(r) THEN Miss(r)
                      ELSE IF TokAt(inner).k = "identifier"
                        THEN asDeclarator(r)
                        ELSE asAbstract(r)
             [] OTHER ->
                  IF hasStar THEN asAbstract(q)
                  ELSE Ok(q, ParameterDeclaration(declarationSpecifiers.n,
                                                  "AbstractDeclarator", Null))

ParseDirectAbstractDeclarator(p) ==
  Call("ParseDirectAbstractDeclaratorSuffix", p, <<NullPtr>>)

ParseAbstractDeclarator(p) ==
  IF ~Live(p) THEN Miss(p)
  ELSE LET ptrs == Call("ParsePointers", p, <<<<>>>>)
           result == Call("ParseDirectAbstractDeclarator", ptrs.p, <<>>)
       IN  IF ~result.ok THEN Miss(result.p)
           ELSE Ok(result.p,
                   [t |-> "AbstractDeclarator", pointers |-> ptrs.arr,
                    direct |-> result.n])

ParseDirectAbstractDeclaratorSuffix(p, directAbstractDeclarator) ==
  IF ~Live(p) THEN Miss(p)
  ELSE
  LET pk == PeekAny(p, <<"l_paren", "l_square">>)
  IN  IF ~pk.b
        THEN Ok(LCC_ASSERT(pk.p, directAbstractDeclarator.ok),
                PtrNode(directAbstractDeclarator))
      ELSE IF Kind(pk.p) = "l_paren"
        THEN LET c == Deref(Consume(pk.p, "l_paren").p)
             IN  IF IsFirstInDeclarationSpecifier(c)
                   THEN LET parameterTypeList == Call("ParseParameterTypeList", c, <<>>)
                        IN  IF ~parameterTypeList.ok
                              THEN Miss(parameterTypeList.p)
                              ELSE Call("ParseDirectAbstractDeclaratorSuffix", Match(parameterTypeList.p, "r_paren").p, <<Ptr([t |-> "DirectAbstractDeclaratorParamTypeList", direct |-> PtrNode(directAbstractDeclarator), params |-> parameterTypeList.n])>>)
                 ELSE IF IsFirstInAbstractDeclarator(c)
                   THEN LET abstractDeclarator == Call("ParseAbstractDeclarator", c, <<>>)
                        IN  IF ~abstractDeclarator.ok
                              THEN Miss(abstractDeclarator.p)
                              ELSE Call("ParseDirectAbstractDeclaratorSuffix", Match(abstractDeclarator.p, "r_paren").p, <<Ptr([t |-> "DirectAbstractDeclaratorParent", declarator |-> abstractDeclarator.n])>>)
                   ELSE Call("ParseDirectAbstractDeclaratorSuffix", Match(c, "r_paren").p, <<Ptr([t |-> "DirectAbstractDeclaratorParamTypeList", direct |-> PtrNode(directAbstractDeclarator), params |-> Null])>>)
        ELSE LET c == Consume(pk.p, "l_square").p
                 ps == Peek(c, "star")
             IN  IF ps.b
                   THEN LET moved == StarIn("ParseDirectAbstractDeclaratorSuffix", [p |-> Consume(ps.p, "star").p,
                                           ok |-> directAbstractDeclarator.ok,
                                           n |-> directAbstractDeclarator.n])
                        IN  Call("ParseDirectAbstractDeclaratorSuffix", Match(moved.p, "r_square").p, <<Ptr(moved.n)>>)
                   ELSE LET pr == Peek(ps.p, "r_square")
                            assignment == Call("ParseAssignExpr", pr.p, <<>>)
                        IN  IF pr.b
                              THEN Call("ParseDirectAbstractDeclaratorSuffix", Match(pr.p, "r_square").p, <<Ptr([t |-> "DirectAbstractDeclaratorAssignExpr", direct |-> PtrNode(directAbstractDeclarator), assign |-> Null])>>)
                            ELSE IF ~assignment.ok THEN Miss(assignment.p)
                            ELSE Call("ParseDirectAbstractDeclaratorSuffix", Match(assignment.p, "r_square").p, <<Ptr([t |-> "DirectAbstractDeclaratorAssignExpr", direct |-> PtrNode(directAbstractDeclarator), assign |-> assignment.n])>>)

(***************************************************************************)
(* Initializers                                                            *)
(***************************************************************************)
ParseInitializer(p) ==
  IF ~Live(p) THEN Miss(p)
  ELSE
  LET pk == Peek(p, "l_brace")
  IN  IF ~pk.b
        THEN LET assignment == Call("ParseAssignExpr", pk.p, <<>>)
             IN  IF ~assignment.ok THEN Miss(LOGE(assignment.p))
                 ELSE Ok(assignment.p,
                         [t |-> "Initializer", assign |-> assignment.n])
        ELSE LET initializerList ==
                   Call("ParseInitializerList", Consume(pk.p, "l_brace").p, <<>>)
                 pc1 == Peek(initializerList.p, "comma")
                 q == IF pc1.b THEN Consume(pc1.p, "comma").p ELSE pc1.p
             IN  IF ~initializerList.ok THEN Miss(initializerList.p)
                 ELSE Ok(Match(q, "r_brace").p,
                         [t |-> "Initializer", list |-> initializerList.n])

\* while (Peek(tok::l_square) || Peek(tok::period)) of a designation
ParseDesignation(p, designation) ==
  IF ~Live(p) THEN Acc(p, designation)
  ELSE
  LET pk == PeekAny(p, <<"l_square", "period">>)
      ps == Peek(pk.p, "l_square")
  IN  IF ~pk.b THEN Acc(pk.p, designation)
      ELSE IF ps.b
        THEN LET constant ==
                   Call("ParseConditionalExpr", Consume(ps.p, "l_square").p, <<>>)
             IN  IF ~constant.ok THEN AccMiss(constant.p)
                 ELSE Call("ParseDesignation", Match(constant.p, "r_square").p, <<Append(designation, [t |-> "index", e |-> constant.n])>>)
        ELSE LET pp == Peek(ps.p, "period")
                 e == Expect(Consume(pp.p, "period").p, "identifier").p
             IN  IF ~pp.b THEN Call("ParseDesignation", pp.p, <<designation>>)
                 ELSE Call("ParseDesignation", Consume(e, "identifier").p, <<Append(designation, [t |-> "member", name |-> getContent(e)])>>)

\* designation{opt} initializer
ParseDesignatedInitializer(p) ==
  LET designation == Call("ParseDesignation", p, <<<<>>>>)
      pe == Peek(designation.p, "equal")
      q == IF designation.arr = <<>> THEN designation.p
           ELSE IF pe.b THEN Consume(pe.p, "equal").p ELSE pe.p
      initializer == Call("ParseInitializer", q, <<>>)
  IN  IF ~designation.ok THEN Miss(designation.p)
      ELSE IF ~initializer.ok THEN Miss(initializer.p)
      ELSE Ok(initializer.p, [initializer |-> initializer.n,
                              designation |-> designation.arr])

ParseInitializerListLoop(p, vector) ==
  IF ~Live(p) THEN Acc(p, vector)
  ELSE LET pk == Peek(p, "comma")
           item == Call("ParseDesignatedInitializer", Consume(pk.p, "comma").p, <<>>)
       IN  IF ~pk.b THEN Acc(pk.p, vector)
           ELSE IF ~item.ok THEN AccMiss(item.p)
           ELSE Call("ParseInitializerListLoop", item.p, <<Append(vector, item.n)>>)

ParseInitializerList(p) ==
  LET first == Call("ParseDesignatedInitializer", p, <<>>)
      l == Call("ParseInitializerListLoop", first.p, <<<<first.n>>>>)
  IN  IF ~first.ok THEN Miss(first.p)
      ELSE IF ~l.ok THEN Miss(l.p)
      ELSE Ok(l.p, [t |-> "InitializerList", vector |-> l.arr])

(***************************************************************************)
(* Statements                                                              *)
(***************************************************************************)
ParseIfStmt(p) ==
  LET c == Match(Consume(p, "kw_if").p, "l_paren").p
      expr == Call("ParseExpr", c, <<>>)
      thenStmt == Call("ParseStmt", Match(expr.p, "r_paren").p, <<>>)
      pe == Peek(thenStmt.p, "kw_else")
      elseStmt == Call("ParseStmt", Consume(pe.p, "kw_else").p, <<>>)
  IN  IF ~expr.ok THEN Miss(expr.p)
      ELSE IF ~thenStmt.ok THEN Miss(thenStmt.p)
      ELSE IF ~pe.b
        THEN Ok(pe.p, [t |-> "IfStmt", expr |-> expr.n, then |-> thenStmt.n,
                       else |-> Null])
      ELSE IF ~elseStmt.ok THEN Miss(elseStmt.p)
      ELSE Ok(elseStmt.p, [t |-> "IfStmt", expr |-> expr.n,
                           then |-> thenStmt.n, else |-> elseStmt.n])

ParseWhileStmt(p) ==
  LET c == Match(Consume(p, "kw_while").p, "l_paren").p
      expr == Call("ParseExpr", c, <<>>)
      stmt == Call("ParseStmt", Match(expr.p, "r_paren").p, <<>>)
  IN  IF ~expr.ok THEN Miss(expr.p)
      ELSE IF ~stmt.ok THEN Miss(stmt.p)
      ELSE Ok(stmt.p, [t |-> "WhileStmt", expr |-> expr.n, stmt |-> stmt.n])

ParseDoWhileStmt(p) ==
  LET stmt == Call("ParseStmt", Consume(p, "kw_do").p, <<>>)
      c == Match(Match(stmt.p, "kw_while").p, "l_paren").p
      expr == Call("ParseExpr", c, <<>>)
  IN  IF ~stmt.ok THEN Miss(stmt.p)
      ELSE IF ~expr.ok THEN Miss(expr.p)
      ELSE Ok(Match(Match(expr.p, "r_paren").p, "semi").p,
              [t |-> "DoWhileStmt", stmt |-> stmt.n, expr |-> expr.n])

ParseBreakStmt(p) ==
  Ok(Match(Match(p, "kw_break").p, "semi").p, [t |-> "BreakStmt"])

ParseContinueStmt(p) ==
  Ok(Match(Match(p, "kw_continue").p, "semi").p, [t |-> "ContinueStmt"])

ParseReturnStmt(p) ==
  LET pk == Peek(Match(p, "kw_return").p, "semi")
      expr == Call("ParseExpr", pk.p, <<>>)
  IN  IF pk.b
        THEN Ok(Consume(pk.p, "semi").p, [t |-> "ReturnStmt", expr |-> Null])
      ELSE IF ~expr.ok THEN Miss(expr.p)
      ELSE Ok(Match(expr.p, "semi").p,
              [t |-> "ReturnStmt", expr |-> expr.n])

ParseExprStmt(p) ==
  LET pk == Peek(p, "semi")
      expr == Call("ParseExpr", pk.p, <<>>)
  IN  IF pk.b
        THEN Ok(Consume(pk.p, "semi").p, [t |-> "ExprStmt", expr |-> Null])
      ELSE IF ~expr.ok THEN Miss(expr.p)
      ELSE Ok(Match(expr.p, "semi").p, [t |-> "ExprStmt", expr |-> expr.n])

ParseSwitchStmt(p) ==
  LET c == Match(Consume(p, "kw_switch").p, "l_paren").p
      expr == Call("ParseExpr", c, <<>>)
      stmt == Call("ParseStmt", Match(expr.p, "r_paren").p, <<>>)
  IN  IF ~expr.ok THEN Miss(expr.p)
      ELSE IF ~stmt.ok THEN Miss(stmt.p)
      ELSE Ok(stmt.p, [t |-> "SwitchStmt", expr |-> expr.n, stmt |-> stmt.n])

ParseCaseStmt(p) ==
  LET expr == Call("ParseConditionalExpr", Consume(p, "kw_case").p, <<>>)
      stmt == Call("ParseStmt", Match(expr.p, "colon").p, <<>>)
  IN  IF ~expr.ok THEN Miss(expr.p)
      ELSE IF ~stmt.ok THEN Miss(stmt.p)
      ELSE Ok(stmt.p, [t |-> "CaseStmt", expr |-> expr.n, stmt |-> stmt.n])

ParseDefaultStmt(p) ==
  LET stmt == Call("ParseStmt", Match(Consume(p, "kw_default").p, "colon").p, <<>>)
  IN  IF ~stmt.ok THEN Miss(stmt.p)
      ELSE Ok(stmt.p, [t |-> "DefaultStmt", stmt |-> stmt.n])

ParseGotoStmt(p) ==
  LET e == Expect(Consume(p, "kw_goto").p, "identifier").p
  IN  Ok(Match(Consume(e, "identifier").p, "semi").p,
         [t |-> "GotoStmt", name |-> getContent(e)])

\* the keywords ParseStmt asks for, in the order of its if-else chain
StmtKeywords ==
  <<"kw_if", "kw_do", "kw_while", "kw_for", "kw_break", "kw_continue",
    "kw_return", "l_brace", "kw_switch", "kw_default", "kw_case", "kw_goto">>

\* the last branch of ParseStmt with the expression statement parsed from
\* where the cursor is after the identifier
ParseLabelOrExprStmtOn(p) ==
  LET start == p.cur
      pi == Peek(p, "identifier")
      c == Consume(pi.p, "identifier").p
      pc1 == Peek(c, "colon")
  IN  IF ~pi.b THEN Call("ParseExprStmt", pi.p, <<>>)
      ELSE IF pc1.b
        THEN Ok(Consume(pc1.p, "colon").p,
                [t |-> "LabelStmt", name |-> TokAt(start).v])
        ELSE Call("ParseExprStmt", Note(pc1.p, "ReparseAsExprStmt", TokAt(start).v), <<>>)

\* the last branch of ParseStmt:  identifier : stmt, or expr{opt} ;
ParseLabelOrExprStmt(p) ==
  LET start == p.cur
      pi == Peek(p, "identifier")
      c == Consume(pi.p, "identifier").p
      pc1 == Peek(c, "colon")
  IN  IF ~pi.b THEN Call("ParseExprStmt", pi.p, <<>>)
      ELSE IF pc1.b
        THEN Ok(Consume(pc1.p, "colon").p,
                [t |-> "LabelStmt", name |-> TokAt(start).v])
        ELSE Call("ParseExprStmt", Note(SetCursor(pc1.p, start), "ReparseAsExprStmt", TokAt(start).v), <<>>)

ParseStmt(p) ==
  IF ~Live(p) THEN Miss(p)
  ELSE
  LET pk == PeekAny(p, StmtKeywords)
      q == pk.p
      k == Kind(q)
  IN  IF pk.b
        THEN CASE k = "kw_if" -> Call("ParseIfStmt", q, <<>>)
               [] k = "kw_do" -> Call("ParseDoWhileStmt", q, <<>>)
               [] k = "kw_while" -> Call("ParseWhileStmt", q, <<>>)
               [] k = "kw_for" -> Call("ParseForStmt", q, <<>>)
               [] k = "kw_break" -> Call("ParseBreakStmt", q, <<>>)
               [] k = "kw_continue" -> Call("ParseContinueStmt", q, <<>>)
               [] k = "kw_return" -> Call("ParseReturnStmt", q, <<>>)
               [] k = "l_brace" -> Call("ParseBlockStmt", q, <<>>)
               [] k = "kw_switch" -> Call("ParseSwitchStmt", q, <<>>)
               [] k = "kw_default" -> Call("ParseDefaultStmt", q, <<>>)
               [] k = "kw_case" -> Call("ParseCaseStmt", q, <<>>)
               [] k = "kw_goto" -> Call("ParseGotoStmt", q, <<>>)
        ELSE ParseLabelOrExprStmt(q)

ParseForStmt(p) ==
  LET c == Match(Consume(p, "kw_for").p, "l_paren").p
      blockItem == Call("ParseBlockItem", c, <<>>)
      isDeclaration == blockItem.n.kind = "Declaration"
      d == Deref(blockItem.p)
      withControl == isDeclaration \/ Kind(d) # "semi"
      control == Call("ParseExpr", d, <<>>)
      a == IF withControl THEN Match(control.p, "semi").p
           ELSE Consume(d, "semi").p
      pr == Peek(a, "r_paren")
      post == Call("ParseExpr", pr.p, <<>>)
      b == IF pr.b THEN Consume(pr.p, "r_paren").p
           ELSE Match(post.p, "r_paren").p
      stmt == Call("ParseStmt", b, <<>>)
      node == [t |-> "ForStmt", stmt |-> stmt.n, init |-> blockItem.n.n,
               control |-> IF withControl THEN control.n ELSE Null,
               post |-> IF pr.b THEN Null ELSE post.n]
  IN  IF ~blockItem.ok THEN Miss(blockItem.p)
      ELSE IF withControl /\ ~control.ok THEN Miss(control.p)
      ELSE IF ~pr.b /\ ~post.ok THEN Miss(post.p)
      ELSE IF ~stmt.ok THEN Miss(stmt.p)
      ELSE IF isDeclaration \/ blockItem.n.n.t = "ExprStmt"
        THEN Ok(stmt.p, node)
      ELSE Miss(LCC_UNREACHABLE(stmt.p))

(***************************************************************************)
(* Declarations                                                            *)
(***************************************************************************)
\* the identifier a declarator declares
RECURSIVE getDirectDeclaratorName(_)
getDirectDeclaratorName(direct) ==
  CASE direct.t = "DirectDeclaratorIdent" -> direct.name
    [] direct.t = "DirectDeclaratorParent" ->
         IF direct.declarator.t = "Declarator"
           THEN getDirectDeclaratorName(direct.declarator.direct)
           ELSE ""
    [] direct.t \in {"DirectDeclaratorParentParamTypeList",
                     "DirectDeclaratorAssignExpr"} ->
         getDirectDeclaratorName(direct.direct)
    [] OTHER -> ""

getDeclaratorName(declarator) ==
  IF declarator.t = "Declarator"
    THEN getDirectDeclaratorName(declarator.direct)
    ELSE ""

IsTypedefStorage(specs) ==
  \E i \in 1..Len(specs.storage) : specs.storage[i] = "Typedef"

\* an init-declarator that binds its name at once: ordinary when bind is
\* set, and otherwise as a typedef name before the list is finished
ParseInitDeclaratorEager(p, declarator, bind) ==
  LET a == IF bind THEN addToScope(p, getDeclaratorName(declarator))
           ELSE addTypedef(p, getDeclaratorName(declarator))
      pe == Peek(a, "equal")
      initializer == Call("ParseInitializer", Consume(pe.p, "equal").p, <<>>)
  IN  IF ~pe.b
        THEN Ok(Note(pe.p, "InitDeclarator", getDeclaratorName(declarator)),
                [declarator |-> declarator, initializer |-> Null])
      ELSE IF ~initializer.ok THEN Miss(LOGE(initializer.p))
      ELSE Ok(Note(initializer.p, "InitDeclarator",
                   getDeclaratorName(declarator)),
              [declarator |-> declarator, initializer |-> initializer.n])

\* declarator { = initializer }: one init-declarator, bound in the
\* ordinary name space when bind is set
ParseInitDeclarator(p, declarator, bind) ==
  LET a == IF bind THEN addToScope(p, getDeclaratorName(declarator)) ELSE p
      pe == Peek(a, "equal")
      initializer == Call("ParseInitializer", Consume(pe.p, "equal").p, <<>>)
  IN  IF ~pe.b
        THEN Ok(Note(pe.p, "InitDeclarator", getDeclaratorName(declarator)),
                [declarator |-> declarator, initializer |-> Null])
      ELSE IF ~initializer.ok THEN Miss(LOGE(initializer.p))
      ELSE Ok(Note(initializer.p, "InitDeclarator",
                   getDeclaratorName(declarator)),
              [declarator |-> declarator, initializer |-> initializer.n])

\* while (Peek(tok::comma)) of FinishDeclaration
FinishDeclarationLoop(p, initDeclarators) ==
  IF ~Live(p) THEN Acc(p, initDeclarators)
  ELSE LET pk == Peek(p, "comma")
           declarator == Call("ParseDeclarator", Consume(pk.p, "comma").p, <<>>)
           item == Call("ParseInitDeclarator", declarator.p, <<declarator.n, FALSE>>)
       IN  IF ~pk.b THEN Acc(pk.p, initDeclarators)
           ELSE IF ~declarator.ok THEN AccMiss(LOGE(declarator.p))
           ELSE IF ~item.ok THEN AccMiss(item.p)
           ELSE Call("FinishDeclarationLoop", item.p, <<Append(initDeclarators, item.n)>>)

RECURSIVE addTypedefs(_, _)
addTypedefs(p, initDeclarators) ==
  IF initDeclarators = <<>> THEN p
  ELSE addTypedefs(
         addTypedef(p, getDeclaratorName(Head(initDeclarators).declarator)),
         Tail(initDeclarators))

FinishDeclaration(p, declarationSpecifiers, alreadyParsedDeclarator) ==
  LET isTypedefDecl == IsTypedefStorage(declarationSpecifiers)
      entry == Note(p, "FinishDeclaration",
                    IF isTypedefDecl THEN "typedef" ELSE "")
      first == IF alreadyParsedDeclarator.ok
                 THEN Call("ParseInitDeclarator", entry, <<alreadyParsedDeclarator.n, ~isTypedefDecl>>)
                 ELSE Ok(entry, Null)
      pk == Peek(first.p, "comma")
      c == IF pk.b THEN Consume(pk.p, "comma").p ELSE pk.p
      declarator == Call("ParseDeclarator", c, <<>>)
      second == Call("ParseInitDeclarator", declarator.p, <<declarator.n, ~isTypedefDecl>>)
      l == Call("FinishDeclarationLoop", second.p, <<(IF alreadyParsedDeclarator.ok THEN <<first.n>> ELSE <<>>) \o <<second.n>>>>)
      semi == Consume(l.p, "semi")
      s == Note(semi.p, IF semi.b THEN "semi" ELSE "nosemi", "")
      bound == IF isTypedefDecl THEN addTypedefs(s, l.arr) ELSE s
  IN  IF ~first.ok THEN Miss(first.p)
      ELSE IF ~declarator.ok THEN Miss(LOGE(declarator.p))
      ELSE IF ~second.ok THEN Miss(second.p)
      ELSE IF ~l.ok THEN Miss(l.p)
      ELSE Ok(Note(bound, "Declaration", ""),
              [t |-> "Declaration", specs |-> declarationSpecifiers,
               initDeclarators |-> l.arr])

ParseDeclaration(p) ==
  IF ~Live(p) THEN Miss(p)
  ELSE
  LET declarationSpecifiers == Call("ParseDeclarationSpecifiers", p, <<>>)
      e == IF isEmpty(declarationSpecifiers.n)
             THEN LOGE(declarationSpecifiers.p)
             ELSE declarationSpecifiers.p
      pk == Peek(e, "semi")
  IN  IF pk.b
        THEN Ok(Note(Consume(pk.p, "semi").p, "Declaration", ""),
                [t |-> "Declaration", specs |-> declarationSpecifiers.n,
                 initDeclarators |-> <<>>])
        ELSE Call("FinishDeclaration", pk.p, <<declarationSpecifiers.n, NullPtr>>)

(***************************************************************************)
(* Compound statements                                                     *)
(***************************************************************************)
ParseBlockItem(p) ==
  IF ~Live(p) THEN Miss(p)
  ELSE
  LET d == Deref(p)
  IN  IF IsFirstInDeclarationSpecifier(d)
        THEN LET declaration == Call("ParseDeclaration", Note(d, "BlockItemDeclaration", ""), <<>>)
             IN  IF ~declaration.ok THEN Miss(LOGE(declaration.p))
                 ELSE Ok(declaration.p,
                         [t |-> "BlockItem", kind |-> "Declaration",
                          n |-> declaration.n])
        ELSE LET statement == Call("ParseStmt", Note(d, "BlockItemStmt", ""), <<>>)
             IN  IF ~statement.ok THEN Miss(LOGE(statement.p))
                 ELSE Ok(statement.p,
                         [t |-> "BlockItem", kind |-> "Stmt",
                          n |-> statement.n])

\* while (IsFirstInBlockItem()) of ParseBlockStmt
ParseBlockItems(p, items) ==
  IF ~Live(p) THEN Acc(p, items)
  ELSE
  LET d == Deref(p)
      result == Call("ParseBlockItem", d, <<>>)
  IN  IF ~IsFirstInBlockItem(d) THEN Acc(d, items)
      ELSE IF ~result.ok THEN AccMiss(result.p)
      ELSE IF result.p.cur = d.cur /\ result.p.scope = d.scope
        THEN Acc(Halt(result.p, "hang"), items)
      ELSE Call("ParseBlockItems", result.p, <<Append(items, result.n)>>)

ParseBlockStmt(p) ==
  IF ~Live(p) THEN Miss(p)
  ELSE
  LET a == pushScope(Match(p, "l_brace").p)
      l == Call("ParseBlockItems", a, <<<<>>>>)
  IN  IF ~l.ok THEN Miss(l.p)
      ELSE Ok(Match(popScope(l.p), "r_brace").p,
              [t |-> "BlockStmt", items |-> l.arr])

(***************************************************************************)
(* External declarations                                                   *)
(***************************************************************************)
\* the "check is void" test on one parameter of a function definition
IsSoleVoidParameter(parameterDeclarations, i) ==
  LET specs == parameterDeclarations[i].specs
  IN  /\ Len(specs.storage) = 0
      /\ Len(specs.quals) = 0
      /\ Len(parameterDeclarations) = 1
      /\ Len(specs.types) = 1
      /\ specs.types[1].t = "Primitive"
      /\ specs.types[1].name = "Void"

\* the range-for over the parameter declarations of a function definition;
\* std::get on a parameter that holds an abstract declarator throws
\* std::bad_variant_access
RECURSIVE BindParameters(_, _, _)
BindParameters(p, parameterDeclarations, i) ==
  IF ~Live(p) \/ i > Len(parameterDeclarations) THEN p
  ELSE IF IsSoleVoidParameter(parameterDeclarations, i) THEN p
  ELSE IF parameterDeclarations[i].kind = "AbstractDeclarator"
    THEN Halt(LOGE(p), "throw")
  ELSE BindParameters(
         addToScope(p, getDeclaratorName(parameterDeclarations[i].declarator)),
         parameterDeclarations, i + 1)

\* a function definition that binds the function name before it pops the
\* function's frame
ParseFunctionBodyNameFirst(p, declarationSpecifiers, declarator) ==
  LET parameters == declarator.direct
      a == pushScope(p)
      b == BindParameters(a, parameters.params.params, 1)
      compoundStmt == Call("ParseBlockStmt", Note(b, "ParseBlockStmt", ""), <<>>)
      c == Note(compoundStmt.p, "EndBlockStmt", "")
  IN  IF parameters.t # "DirectDeclaratorParentParamTypeList"
        THEN Miss(LOGE(p))
      ELSE IF ~compoundStmt.ok THEN Miss(LOGE(popScope(c)))
      ELSE Ok(Note(popScope(addToScope(c, getDeclaratorName(declarator))),
                   "FunctionDefinition", getDeclaratorName(declarator)),
              [t |-> "FunctionDefinition", specs |-> declarationSpecifiers,
               declarator |-> declarator, body |-> compoundStmt.n])

ParseFunctionBody(p, declarationSpecifiers, declarator) ==
  LET parameters == declarator.direct
      a == pushScope(p)
      b == BindParameters(a, parameters.params.params, 1)
      compoundStmt == Call("ParseBlockStmt", Note(b, "ParseBlockStmt", ""), <<>>)
      c == popScope(Note(compoundStmt.p, "EndBlockStmt", ""))
  IN  IF parameters.t # "DirectDeclaratorParentParamTypeList"
        THEN Miss(LOGE(p))
      ELSE IF ~compoundStmt.ok THEN Miss(LOGE(c))
      ELSE Ok(Note(addToScope(c, getDeclaratorName(declarator)),
                   "FunctionDefinition", getDeclaratorName(declarator)),
              [t |-> "FunctionDefinition", specs |-> declarationSpecifiers,
               declarator |-> declarator, body |-> compoundStmt.n])

ParseExternalDeclaration(p) ==
  LET declarationSpecifiers == Call("ParseDeclarationSpecifiers", p, <<>>)
      ps == Peek(declarationSpecifiers.p, "semi")
      declarator == Call("ParseDeclarator", ps.p, <<>>)
      pb == Peek(declarator.p, "l_brace")
  IN  IF isEmpty(declarationSpecifiers.n)
        THEN Miss(LOGE(declarationSpecifiers.p))
      ELSE IF ps.b
        THEN Ok(Note(Consume(ps.p, "semi").p, "Declaration", ""),
                [t |-> "Declaration", specs |-> declarationSpecifiers.n,
                 initDeclarators |-> <<>>])
      ELSE IF ~declarator.ok THEN Miss(LOGE(declarator.p))
      ELSE IF pb.b
        THEN Call("ParseFunctionBody", pb.p, <<declarationSpecifiers.n, declarator.n>>)
      ELSE Call("FinishDeclaration", pb.p, <<declarationSpecifiers.n, Ptr(declarator.n)>>)

\* a call of a member function of the parser in the state p with the
\* arguments a
Call(f, p, a) ==
  CASE f = "ParseExprLoop" -> ParseExprLoop(p, a[1])
    [] f = "ParseExpr" -> ParseExpr(p)
    [] f = "ParseAssignExprLoop" -> ParseAssignExprLoop(p, a[1])
    [] f = "ParseAssignExpr" -> ParseAssignExpr(p)
    [] f = "ParseConditionalExpr" -> ParseConditionalExpr(p)
    [] f = "ParseLogOrExprLoop" -> ParseLogOrExprLoop(p, a[1])
    [] f = "ParseLogOrExpr" -> ParseLogOrExpr(p)
    [] f = "ParseLogAndExprLoop" -> ParseLogAndExprLoop(p, a[1])
    [] f = "ParseLogAndExpr" -> ParseLogAndExpr(p)
    [] f = "ParseBitOrExprLoop" -> ParseBitOrExprLoop(p, a[1])
    [] f = "ParseBitOrExpr" -> ParseBitOrExpr(p)
    [] f = "ParseBitXorExprLoop" -> ParseBitXorExprLoop(p, a[1])
    [] f = "ParseBitXorExpr" -> ParseBitXorExpr(p)
    [] f = "ParseBitAndExprLoop" -> ParseBitAndExprLoop(p, a[1])
    [] f = "ParseBitAndExpr" -> ParseBitAndExpr(p)
    [] f = "ParseEqualExprLoop" -> ParseEqualExprLoop(p, a[1])
    [] f = "ParseEqualExpr" -> ParseEqualExpr(p)
    [] f = "ParseRelationalExprLoop" -> ParseRelationalExprLoop(p, a[1])
    [] f = "ParseRelationalExpr" -> ParseRelationalExpr(p)
    [] f = "ParseShiftExprLoop" -> ParseShiftExprLoop(p, a[1])
    [] f = "ParseShiftExpr" -> ParseShiftExpr(p)
    [] f = "ParseAdditiveExprLoop" -> ParseAdditiveExprLoop(p, a[1])
    [] f = "ParseAdditiveExpr" -> ParseAdditiveExpr(p)
    [] f = "ParseMultiExprLoop" -> ParseMultiExprLoop(p, a[1])
    [] f = "ParseMultiExpr" -> ParseMultiExpr(p)
    [] f = "ParseTypeName" -> ParseTypeName(p)
    [] f = "ParseCastExpr" -> ParseCastExpr(p)
    [] f = "ParseUnaryExpr" -> ParseUnaryExpr(p)
    [] f = "ParsePostFixExprArgs" -> ParsePostFixExprArgs(p, a[1])
    [] f = "ParsePostFixExprSuffix" -> ParsePostFixExprSuffix(p, a[1])
    [] f = "ParsePostFixExpr" -> ParsePostFixExpr(p)
    [] f = "ParseDeclarationSpecifiersLoop" -> ParseDeclarationSpecifiersLoop(p, a[1], a[2])
    [] f = "ParseDeclarationSpecifiers" -> ParseDeclarationSpecifiers(p)
    [] f = "ParseSpecifierQualifierListLoop" -> ParseSpecifierQualifierListLoop(p, a[1], a[2])
    [] f = "ParseSpecifierQualifierList" -> ParseSpecifierQualifierList(p)
    [] f = "ParseStructDeclarators" -> ParseStructDeclarators(p, a[1])
    [] f = "ParseStructDeclarations" -> ParseStructDeclarations(p, a[1])
    [] f = "ParseStructOrUnionSpecifier" -> ParseStructOrUnionSpecifier(p)
    [] f = "ParseEnumerators" -> ParseEnumerators(p, a[1])
    [] f = "ParseEnumDeclaration" -> ParseEnumDeclaration(p, a[1])
    [] f = "ParseEnumSpecifier" -> ParseEnumSpecifier(p)
    [] f = "ParsePointerQualifiers" -> ParsePointerQualifiers(p, a[1])
    [] f = "ParsePointer" -> ParsePointer(p)
    [] f = "ParsePointers" -> ParsePointers(p, a[1])
    [] f = "ParseDeclarator" -> ParseDeclarator(p)
    [] f = "ParseDirectDeclaratorSuffix" -> ParseDirectDeclaratorSuffix(p, a[1])
    [] f = "ParseDirectDeclarator" -> ParseDirectDeclarator(p)
    [] f = "ParseParameterTypeList" -> ParseParameterTypeList(p)
    [] f = "ParseParameterListLoop" -> ParseParameterListLoop(p, a[1])
    [] f = "ParseParameterList" -> ParseParameterList(p)
    [] f = "ParseParameterDeclaration" -> ParseParameterDeclaration(p)
    [] f = "ParseDirectAbstractDeclarator" -> ParseDirectAbstractDeclarator(p)
    [] f = "ParseAbstractDeclarator" -> ParseAbstractDeclarator(p)
    [] f = "ParseDirectAbstractDeclaratorSuffix" -> ParseDirectAbstractDeclaratorSuffix(p, a[1])
    [] f = "ParseInitializer" -> ParseInitializer(p)
    [] f = "ParseDesignation" -> ParseDesignation(p, a[1])
    [] f = "ParseDesignatedInitializer" -> ParseDesignatedInitializer(p)
    [] f = "ParseInitializerListLoop" -> ParseInitializerListLoop(p, a[1])
    [] f = "ParseInitializerList" -> ParseInitializerList(p)
    [] f = "ParseIfStmt" -> ParseIfStmt(p)
    [] f = "ParseWhileStmt" -> ParseWhileStmt(p)
    [] f = "ParseDoWhileStmt" -> ParseDoWhileStmt(p)
    [] f = "ParseBreakStmt" -> ParseBreakStmt(p)
    [] f = "ParseContinueStmt" -> ParseContinueStmt(p)
    [] f = "ParseReturnStmt" -> ParseReturnStmt(p)
    [] f = "ParseExprStmt" -> ParseExprStmt(p)
    [] f = "ParseSwitchStmt" -> ParseSwitchStmt(p)
    [] f = "ParseCaseStmt" -> ParseCaseStmt(p)
    [] f = "ParseDefaultStmt" -> ParseDefaultStmt(p)
    [] f = "ParseGotoStmt" -> ParseGotoStmt(p)
    [] f = "ParseStmt" -> ParseStmt(p)
    [] f = "ParseForStmt" -> ParseForStmt(p)
    [] f = "ParseInitDeclarator" -> ParseInitDeclarator(p, a[1], a[2])
    [] f = "FinishDeclarationLoop" -> FinishDeclarationLoop(p, a[1])
    [] f = "FinishDeclaration" -> FinishDeclaration(p, a[1], a[2])
    [] f = "ParseDeclaration" -> ParseDeclaration(p)
    [] f = "ParseBlockItem" -> ParseBlockItem(p)
    [] f = "ParseBlockItems" -> ParseBlockItems(p, a[1])
    [] f = "ParseBlockStmt" -> ParseBlockStmt(p)
    [] f = "ParseFunctionBody" -> ParseFunctionBody(p, a[1], a[2])
    [] f = "ParseExternalDeclaration" -> ParseExternalDeclaration(p)

(***************************************************************************)
(* Inputs: token vectors made of external-declaration fragments            *)
(***************************************************************************)
MaxDecls == 2   \* fragments per token vector
MaxIters == 4   \* iterations of ParseTranslationUnit's loop that are followed

\* a fragment: its tokens, whether it is a well-formed external declaration,
\* the typedef names it uses and the names it declares at file scope
Frag(toks, wellFormed, needs, defines) ==
  [toks |-> toks, wellFormed |-> wellFormed, needs |-> needs,
   defines |-> defines]

\* int x ;
FragVar == Frag(<<Kw("kw_int"), Id("x"), Kw("semi")>>, TRUE, {}, {"x"})
\* typedef unsigned int u32 ;
FragTypedef ==
  Frag(<<Kw("kw_typedef"), Kw("kw_unsigned"), Kw("kw_int"), Id("u32"),
         Kw("semi")>>, TRUE, {}, {"u32"})
\* u32 x = 7 ;
FragUse ==
  Frag(<<Id("u32"), Id("x"), Kw("equal"), Num("7"), Kw("semi")>>,
       TRUE, {"u32"}, {"x"})
\* int a , b , c ;
FragThree ==
  Frag(<<Kw("kw_int"), Id("a"), Kw("comma"), Id("b"), Kw("comma"), Id("c"),
         Kw("semi")>>, TRUE, {}, {"a", "b", "c"})
\* typedef int T , U ;
FragTypedefs ==
  Frag(<<Kw("kw_typedef"), Kw("kw_int"), Id("T"), Kw("comma"), Id("U"),
         Kw("semi")>>, TRUE, {}, {"T", "U"})
\* int f ( int p ) { int q ; }
FragFunction ==
  Frag(<<Kw("kw_int"), Id("f"), Kw("l_paren"), Kw("kw_int"), Id("p"),
         Kw("r_paren"), Kw("l_brace"), Kw("kw_int"), Id("q"), Kw("semi"),
         Kw("r_brace")>>, TRUE, {}, {"f"})
\* int g ( int p ) ;
FragPrototype ==
  Frag(<<Kw("kw_int"), Id("g"), Kw("l_paren"), Kw("kw_int"), Id("p"),
         Kw("r_paren"), Kw("semi")>>, TRUE, {}, {"g"})
\* int h ( int p ) { switch ( p ) case 0 && sizeof ( p ) : ; }
FragSwitch ==
  Frag(<<Kw("kw_int"), Id("h"), Kw("l_paren"), Kw("kw_int"), Id("p"),
         Kw("r_paren"), Kw("l_brace"), Kw("kw_switch"), Kw("l_paren"),
         Id("p"), Kw("r_paren"), Kw("kw_case"), Num("0"), Kw("amp_amp"),
         Kw("kw_sizeof"), Kw("l_paren"), Id("p"), Kw("r_paren"),
         Kw("colon"), Kw("semi"), Kw("r_brace")>>, TRUE, {}, {"h"})
\* int k ( void ) { typedef int T ; T T ; }
FragShadow ==
  Frag(<<Kw("kw_int"), Id("k"), Kw("l_paren"), Kw("kw_void"), Kw("r_paren"),
         Kw("l_brace"), Kw("kw_typedef"), Kw("kw_int"), Id("T"), Kw("semi"),
         Id("T"), Id("T"), Kw("semi"), Kw("r_brace")>>, TRUE, {}, {"k"})
\* T T ;   (at file scope, after a typedef of T, a redeclaration)
FragTT == Frag(<<Id("T"), Id("T"), Kw("semi")>>, FALSE, {"T"}, {"T"})
\* typedef int f , V ;   (f is also the name of the function of FragFunction)
FragTypedefF ==
  Frag(<<Kw("kw_typedef"), Kw("kw_int"), Id("f"), Kw("comma"), Id("V"),
         Kw("semi")>>, TRUE, {}, {"f", "V"})
\* typedef int W , Z   (the terminating ; is missing)
FragNoSemi ==
  Frag(<<Kw("kw_typedef"), Kw("kw_int"), Id("W"), Kw("comma"), Id("Z")>>,
       FALSE, {}, {"W", "Z"})
\* ;
FragSemi == Frag(<<Kw("semi")>>, FALSE, {}, {})
\* )
FragParen == Frag(<<Kw("r_paren")>>, FALSE, {}, {})

Fragments ==
  {FragVar, FragTypedef, FragUse, FragThree, FragTypedefs, FragFunction,
   FragPrototype, FragSwitch, FragShadow, FragTT, FragTypedefF, FragNoSemi,
   FragSemi, FragParen}

FragmentSeqs == UNION {[1..n -> Fragments] : n \in 0..MaxDecls}

RECURSIVE Flatten(_)
Flatten(fs) == IF fs = <<>> THEN <<>> ELSE Head(fs).toks \o Flatten(Tail(fs))

\* every fragment is well formed, uses only typedef names declared before
\* it, and declares no name a fragment before it declared
WellFormedUnit(fs) ==
  \A i \in 1..Len(fs) :
    /\ fs[i].wellFormed
    /\ fs[i].needs \subseteq UNION {fs[j].defines : j \in 1..(i - 1)}
    /\ \A j \in 1..(i - 1) : fs[i].defines \cap fs[j].defines = {}

\* what the memory behind the token vector may hold
PastChoices == {<<>>, <<Kw("semi")>>}

(***************************************************************************)
(* ParseTranslationUnit                                                    *)
(***************************************************************************)
Init ==
  \E fs \in FragmentSeqs :
    /\ mTokens = Flatten(fs)
    /\ valid = WellFormedUnit(fs)
    /\ mPast \in PastChoices
    /\ mTokCursor = 1
    /\ mScope = <<EmptyFrame>>
    /\ decls = <<>>
    /\ diag = 0
    /\ ubHit = FALSE
    /\ pc = "loop"
    /\ iters = 0
    /\ hist = <<>>
    /\ unit = "ParseExternalDeclaration"

\* the parser state at the head of the loop
Here ==
  [cur |-> mTokCursor, scope |-> mScope, diag |-> diag, ub |-> FALSE,
   halt |-> "", log |-> <<>>]

\* the outcome of the call the loop body makes
Outcome == Call(unit, Here, <<>>)

\* where the caller is after an iteration with outcome r: in the loop, or
\* stopped by a loop without progress ("hang"), an abort, an exception that
\* leaves ParseTranslationUnit ("throw") or a read of unmapped memory; an
\* iteration that executed undefined behaviour may also have been killed
AfterIteration(r) ==
  IF ~Live(r.p) THEN {r.p.halt}
  ELSE IF r.p.ub THEN {"loop", "crash"}
  ELSE {"loop"}

\* what a call with outcome r leaves behind: the parser's fields, and the
\* value it returned appended to decls
Effects(r) ==
  /\ mTokCursor' = r.p.cur
  /\ mScope' = r.p.scope
  /\ diag' = r.p.diag
  /\ hist' = hist \o r.p.log
  /\ decls' = IF r.ok /\ Live(r.p) THEN Append(decls, r.n) ELSE decls
  /\ ubHit' = (ubHit \/ r.p.ub)
  /\ iters' = iters + 1
  /\ UNCHANGED <<mTokens, mPast, unit, valid>>

\* one iteration of while (mTokCursor != mTokEnd) with outcome r
Iterate(r) == Effects(r) /\ pc' \in AfterIteration(r)

ParseTranslationUnitIteration ==
  /\ pc = "loop"
  /\ mTokCursor # TokEnd
  /\ iters < MaxIters
  /\ Iterate(Outcome)

ParseTranslationUnitReturn ==
  /\ pc = "loop"
  /\ mTokCursor = TokEnd
  /\ pc' = "done"
  /\ UNCHANGED <<mTokens, mPast, mTokCursor, mScope, decls, diag, ubHit,
                 iters, hist, unit, valid>>

Next ==
  \/ ParseTranslationUnitIteration
  \/ ParseTranslationUnitReturn

Spec == Init /\ [][Next]_vars

(***************************************************************************)
(* Scope balance                                                           *)
(***************************************************************************)
\* the events of the history with operation op
EventsOf(op) == {i \in 1..Len(hist) : hist[i].op = op}

\* C1: for every syntactically valid translation unit each pushScope made
\* during ParseTranslationUnit is matched by exactly one popScope: between
\* two external declarations, and when ParseTranslationUnit has returned, as
\* many frames were popped as were pushed and the scope stack holds only the
\* global frame
C1_ScopeBalance ==
  (valid /\ pc \in {"loop", "done"}) =>
    /\ Cardinality(EventsOf("pushScope")) = Cardinality(EventsOf("popScope"))
    /\ Len(mScope) = 1

\* a valid translation unit after whose function definition a frame that
\* was pushed has not been popped
C1_Leak ==
  /\ valid
  /\ pc = "loop"
  /\ Cardinality(EventsOf("pushScope")) > Cardinality(EventsOf("popScope"))
  /\ Len(mScope) > 1

(***************************************************************************)
(* Typedef names of a declaration                                          *)
(***************************************************************************)
\* event j belongs to the call of FinishDeclaration that event i opened: no
\* other call was opened since, and the call had not returned before j
InSegment(i, j) ==
  /\ i < j
  /\ j <= Len(hist)
  /\ hist[i].op = "FinishDeclaration"
  /\ \A k \in (i + 1)..j : hist[k].op # "FinishDeclaration"
  /\ \A k \in (i + 1)..(j - 1) : hist[k].op # "Declaration"

\* the names the init-declarators of the call opened at i declare
DeclaredNames(i) ==
  {hist[j].name :
     j \in {k \in 1..Len(hist) :
              InSegment(i, k) /\ hist[k].op = "InitDeclarator"}}

\* Consume(tok::semi) of the call opened at i was made before event j, and
\* found the `;`
SemiConsumedBefore(i, j) ==
  \E k \in (i + 1)..(j - 1) : InSegment(i, k) /\ hist[k].op = "semi"

\* Consume(tok::semi) of the call opened at i was made before event j
SemiCalledBefore(i, j) ==
  \E k \in (i + 1)..(j - 1) :
    InSegment(i, k) /\ hist[k].op \in {"semi", "nosemi"}

TypedefDeclarations ==
  {i \in EventsOf("FinishDeclaration") : hist[i].name = "typedef"}

BindingInCurrentFrame(scope, n) ==
  IF scope = <<>> \/ n \notin DOMAIN scope[Len(scope)] THEN "none"
  ELSE IF scope[Len(scope)][n] THEN "typedef" ELSE "ordinary"

BeginsWith(toks) ==
  Len(mTokens) >= Len(toks) /\ SubSeq(mTokens, 1, Len(toks)) = toks

\* C3: for the file-scope input `typedef unsigned int u32; u32 x = 7;` the
\* parse yields two Declarations, isTypedefInScope("u32") is true after the
\* first one (as after any leading single-declarator typedef of u32), and
\* the type specifier of the second is the typedef-name u32
C3_TypedefThenUse ==
  /\ (BeginsWith(FragTypedef.toks) /\ iters >= 1) =>
        /\ Len(decls) >= 1
        /\ decls[1].t = "Declaration"
        /\ isTypedefInScope(mScope, "u32")
  /\ (mTokens = FragTypedef.toks \o FragUse.toks /\ iters >= 2) =>
        /\ Len(decls) = 2
        /\ decls[2].t = "Declaration"
        /\ decls[2].specs.types = <<[t |-> "TypedefName", name |-> "u32"]>>

\* the first iteration on that input is over: no Declaration, u32 unbound,
\* the cursor on the `;` of the typedef declaration
C3_FirstDeclarationFails ==
  /\ mTokens = FragTypedef.toks \o FragUse.toks
  /\ iters = 1
  /\ pc = "loop"
  /\ decls = <<>>
  /\ ~isTypedefInScope(mScope, "u32")
  /\ mTokCursor = Len(FragTypedef.toks)

(***************************************************************************)
(* The specifier loops, called on their own                                *)
(***************************************************************************)
MaxSpecTokens == 3   \* tokens in a token vector given to a specifier loop

SpecifierAlphabet ==
  {Kw("kw_int"), Kw("kw_const"), Id("T"), Id("x"), Kw("semi")}

SpecifierInputs ==
  UNION {[1..n -> SpecifierAlphabet] : n \in 1..MaxSpecTokens}

\* scope tables a specifier list is parsed under: nothing bound; T a
\* typedef; x a typedef too; a typedef T hidden by an ordinary T of an
\* inner frame; an ordinary T hidden by a typedef T
SpecifierScopes ==
  {<<EmptyFrame>>,
   <<"T" :> TRUE>>,
   <<("T" :> TRUE) @@ ("x" :> TRUE)>>,
   <<"T" :> TRUE, "T" :> FALSE>>,
   <<"T" :> FALSE, "T" :> TRUE>>}

InitSpecifiers ==
  /\ unit \in {"ParseDeclarationSpecifiers", "ParseSpecifierQualifierList"}
  /\ mTokens \in SpecifierInputs
  /\ mScope \in SpecifierScopes
  /\ mPast \in PastChoices
  /\ valid = FALSE
  /\ mTokCursor = 1
  /\ decls = <<>>
  /\ diag = 0
  /\ ubHit = FALSE
  /\ pc = "call"
  /\ iters = 0
  /\ hist = <<>>

\* where the caller is after a call with outcome r
AfterCall(r) ==
  IF ~Live(r.p) THEN {r.p.halt}
  ELSE IF r.p.ub THEN {"returned", "crash"}
  ELSE {"returned"}

Return(r) == Effects(r) /\ pc' \in AfterCall(r)

\* the caller calls the member function and gets its value
CallUnit ==
  /\ pc = "call"
  /\ Return(Outcome)

SpecSpecifiers == InitSpecifiers /\ [][CallUnit]_vars

\* a type specifier was consumed before token i of the list
TypeSpecifierBefore(i) ==
  \E j \in 1..(i - 1) : mTokens[j].k \in PrimitiveCases \cup {"identifier"}

\* C4: in ParseDeclarationSpecifiers and ParseSpecifierQualifierList an
\* identifier the loop arrives at is consumed as a typedef-name type
\* specifier if and only if no type specifier has been seen earlier in the
\* same list and isTypedefInScope(name) is true; in every other case the
\* loop has stopped at the identifier
C4_TypedefNameRule ==
  (pc = "returned" /\ ~ubHit) =>
    \A i \in 1..Len(mTokens) :
      (i <= mTokCursor /\ mTokens[i].k = "identifier") =>
        ((i < mTokCursor) <=>
           (~TypeSpecifierBefore(i) /\ isTypedefInScope(mScope, mTokens[i].v)))

\* a list in which an identifier was consumed as a typedef-name although a
\* typedef-name had been consumed as type specifier before it
C4_SecondTypedefName ==
  /\ pc = "returned"
  /\ ~ubHit
  /\ Len(decls) = 1
  /\ Len(decls[1].types) >= 2
  /\ decls[1].types[1].t = "TypedefName"
  /\ decls[1].types[2].t = "TypedefName"

(***************************************************************************)
(* A typedef name redeclared: T T ;                                        *)
(***************************************************************************)
TypedefNameT == [t |-> "TypedefName", name |-> "T"]

\* C5: after a typedef of T, in the declaration `T T ;` the first T is the
\* typedef-name type specifier and the second T is left for the declarator:
\* once a typedef-name has been taken as the type specifier of a specifier
\* list, no following identifier is consumed as another typedef-name type
\* specifier of that list
C5_SecondLeftForDeclarator ==
  \A i \in 1..Len(decls) :
    \A k \in 1..Len(decls[i].specs.types) :
      \A j \in 1..(k - 1) :
        ~(/\ decls[i].specs.types[j].t = "TypedefName"
          /\ decls[i].specs.types[k].t = "TypedefName")

\* `typedef int T , U ; T T ;` has been parsed: the second declaration has
\* the type specifiers T, T and no declarator
C5_BothConsumed ==
  /\ mTokens = FragTypedefs.toks \o FragTT.toks
  /\ pc = "done"
  /\ Len(decls) = 2
  /\ decls[2].specs.types = <<TypedefNameT, TypedefNameT>>
  /\ decls[2].initDeclarators = <<>>

(***************************************************************************)
(* The scope table on its own                                              *)
(***************************************************************************)
MaxDepth == 3   \* frames on the scope stack

ScopeNames == {"T", "x"}

InitScope ==
  /\ mScope = <<EmptyFrame>>
  /\ pc = "scope"
  /\ unit = "Scope"
  /\ mTokens = <<>>
  /\ mPast = <<>>
  /\ mTokCursor = 1
  /\ decls = <<>>
  /\ diag = 0
  /\ ubHit = FALSE
  /\ iters = 0
  /\ hist = <<>>
  /\ valid = FALSE

\* the scope table after a member function of Scope left the parser state
\* q; back() and pop_back() on an empty vector are undefined
ScopeCall(q) ==
  /\ mScope' = q.scope
  /\ ubHit' = (ubHit \/ q.ub)
  /\ pc' \in (IF q.ub THEN {"scope", "crash"} ELSE {"scope"})
  /\ UNCHANGED <<mTokens, mPast, mTokCursor, decls, diag, iters, hist, unit,
                 valid>>

CallPushScope ==
  /\ pc = "scope"
  /\ Len(mScope) < MaxDepth
  /\ ScopeCall(pushScope(Here))

CallPopScope ==
  /\ pc = "scope"
  /\ ScopeCall(popScope(Here))

CallAddToScope ==
  /\ pc = "scope"
  /\ \E name \in ScopeNames : ScopeCall(addToScope(Here, name))

CallAddTypedef ==
  /\ pc = "scope"
  /\ \E name \in ScopeNames : ScopeCall(addTypedef(Here, name))

NextScope ==
  \/ CallPushScope
  \/ CallPopScope
  \/ CallAddToScope
  \/ CallAddTypedef

SpecScope == InitScope /\ [][NextScope]_vars

\* the frames of scope that bind name
BindingFrames(scope, name) ==
  {i \in 1..Len(scope) : name \in DOMAIN scope[i]}

Innermost(frames) == CHOOSE i \in frames : \A j \in frames : j <= i

\* C6: after any sequence of pushScope, popScope, addToScope and addTypedef,
\* isTypedefInScope(name) is the is_typedef flag of the binding of name in
\* the innermost frame that binds it, and false when no frame binds name
C6_NearestBindingWins ==
  ~ubHit =>
    \A name \in ScopeNames :
      isTypedefInScope(mScope, name) =
        IF BindingFrames(mScope, name) = {} THEN FALSE
        ELSE mScope[Innermost(BindingFrames(mScope, name))][name]

\* an inner ordinary T hides an outer typedef T, and an inner typedef x
\* hides an outer ordinary x
C6_Shadowing ==
  /\ ~ubHit
  /\ Len(mScope) = 2
  /\ BindingFrames(mScope, "T") = {1, 2}
  /\ mScope[1]["T"] /\ ~mScope[2]["T"]
  /\ ~isTypedefInScope(mScope, "T")
  /\ BindingFrames(mScope, "x") = {1, 2}
  /\ ~mScope[1]["x"] /\ mScope[2]["x"]
  /\ isTypedefInScope(mScope, "x")

(***************************************************************************)
(* The names of an init-declarator list                                    *)
(***************************************************************************)
\* C7: every name declared without typedef in an init-declarator list, at
\* any position of the list, is bound as ordinary in the current scope
\* frame by the end of the declaration, and every name declared with
\* typedef is bound as typedef
C7_EveryNameBound ==
  \A i \in EventsOf("FinishDeclaration") : \A j \in (i + 1)..Len(hist) :
    (InSegment(i, j) /\ hist[j].op = "Declaration") =>
      \A n \in DeclaredNames(i) :
        BindingInCurrentFrame(hist[j].scope, n) =
          IF hist[i].name = "typedef" THEN "typedef" ELSE "ordinary"

\* `int a , b , c ;` has been parsed: a and b are ordinary in the global
\* frame, c is not bound
C7_ThirdNameUnbound ==
  /\ mTokens = FragThree.toks
  /\ pc = "done"
  /\ Len(decls) = 1
  /\ Len(decls[1].initDeclarators) = 3
  /\ BindingInCurrentFrame(mScope, "a") = "ordinary"
  /\ BindingInCurrentFrame(mScope, "b") = "ordinary"
  /\ BindingInCurrentFrame(mScope, "c") = "none"

(***************************************************************************)
(* The scope operations of a function definition                           *)
(***************************************************************************)
Last(S) == CHOOSE i \in S : \A j \in S : j <= i

\* the event that opened the body of the function definition that event e
\* closed, and the pushScope before it
BodyEvents(e) == {k \in 1..(e - 1) : hist[k].op = "ParseBlockStmt"}
PushEvents(b) == {k \in 1..(b - 1) : hist[k].op = "pushScope"}

\* the function definition, among the external declarations, that event e
\* closed
FunctionDefinitions == SelectSeq(decls, LAMBDA d : d.t = "FunctionDefinition")
DefinitionOf(e) ==
  FunctionDefinitions[
    Cardinality({k \in EventsOf("FunctionDefinition") : k <= e})]

\* the names the parameter declarations pds give to the parameters
ParameterNames(pds) ==
  IF IsSoleVoidParameter(pds, 1) THEN <<>>
  ELSE [i \in 1..Len(pds) |-> getDeclaratorName(pds[i].declarator)]

\* the scope operations up to the pop of the function definition closed by
\* event e: a frame is pushed at a, the events up to the body's start b
\* bind the parameters of the definition as ordinary in it, in order, the
\* body ends three events before e, and the pop that follows restores the
\* scope table the definition began with
PushBindParsePop(e, a, b) ==
  /\ b < e - 3
  /\ b - a - 1 = Len(ParameterNames(DefinitionOf(e).declarator.direct.params.params))
  /\ \A k \in (a + 1)..(b - 1) :
       /\ hist[k].op = "addToScope"
       /\ hist[k].name =
            ParameterNames(
              DefinitionOf(e).declarator.direct.params.params)[k - a]
       /\ Len(hist[k].scope) = Len(hist[a].scope)
       /\ BindingInCurrentFrame(hist[k].scope, hist[k].name) = "ordinary"
  /\ hist[e - 3].op = "EndBlockStmt"
  /\ hist[e - 2].op = "popScope"
  /\ hist[e - 2].scope = ScopePop(hist[a].scope)
  /\ hist[e - 1].op = "addToScope"
  /\ hist[e - 1].name = hist[e].name
  /\ hist[e].name = getDeclaratorName(DefinitionOf(e).declarator)

OuterParameterLists ==
  {i \in (Len(hist) + 1)..Len(hist') :
     /\ hist'[i].op = "ParseParameterTypeList"
     /\ \A k \in (Len(hist) + 1)..(i - 1) : hist'[k].op # "ParseBlockStmt"}

\* C9: while the parameter list of a function declarator is parsed a new
\* scope frame is on the stack for the prospective function: the stack is
\* one frame deeper than when the external declaration began, and that
\* frame was pushed by this external declaration
C9_FrameForParameters ==
  [][\A i \in OuterParameterLists :
       /\ Len(hist'[i].scope) = Len(mScope) + 1
       /\ \E k \in (Len(hist) + 1)..(i - 1) : hist'[k].op = "pushScope"]_vars

\* a parameter list was entered with the global frame alone on the stack,
\* before any pushScope
C9_NoFrameForParameters ==
  \E i \in EventsOf("ParseParameterTypeList") :
    /\ Len(hist[i].scope) = 1
    /\ \A k \in 1..(i - 1) : hist[k].op # "pushScope"

(***************************************************************************)
(* Progress of ParseTranslationUnit                                        *)
(***************************************************************************)
\* C10: ParseTranslationUnit terminates on every finite token stream, because
\* every iteration of its loop advances the token cursor by at least one
\* token, also when ParseExternalDeclaration reports a miss
C10_EveryIterationAdvances ==
  [][(pc = "loop" /\ iters' = iters + 1) => mTokCursor' > mTokCursor]_vars

\* on the input `)` two iterations are over: each reported `expect
\* declaration specifier` and returned a miss, and the cursor is on the
\* first token as before
C10_NoProgress ==
  /\ mTokens = FragParen.toks
  /\ pc = "loop"
  /\ iters = 2
  /\ diag = 2
  /\ decls = <<>>
  /\ mTokCursor = 1
  /\ mTokCursor # TokEnd

(***************************************************************************)
(* Empty declarations at file scope                                        *)
(***************************************************************************)
\* the token vector is one or more `;`
OnlySemicolons ==
  Len(mTokens) >= 1 /\ \A i \in 1..Len(mTokens) : mTokens[i].k = "semi"

\* a declaration without specifiers and without declarators
IsEmptyDeclaration(d) ==
  /\ d.t = "Declaration"
  /\ isEmpty(d.specs)
  /\ d.initDeclarators = <<>>

\* C11: parsing a file-scope input of one or more `;` finishes, within as
\* many iterations as there are tokens, and yields a translation unit
\* equivalent to that of the empty input: no declaration but empty ones
C11_SemicolonsAreEmptyUnit ==
  (OnlySemicolons /\ iters >= Len(mTokens)) =>
    /\ mTokCursor = TokEnd
    /\ \A i \in 1..Len(decls) : IsEmptyDeclaration(decls[i])

\* on the input `;` an iteration is over: it reported `expect declaration
\* specifier`, and the cursor is on the `;` as before
C11_SemicolonNotConsumed ==
  /\ mTokens = FragSemi.toks
  /\ iters >= 1
  /\ pc = "loop"
  /\ mTokCursor = 1
  /\ diag = iters
  /\ decls = <<>>

(***************************************************************************)
(* Reads at or behind the end of the token vector                          *)
(***************************************************************************)
\* C12: the parser never reads a token through a cursor at or beyond the end
\* of the token sequence; when the input ends inside a production, as the
\* single token `int` does, the end is observed without such a read
C12_NoReadPastEnd ==
  \A e \in EventsOf("readPastEnd") : hist[e].cur < TokEnd

\* ParseDeclarationSpecifiers was called on the single token `int`: it
\* consumed the `int` and read the kind of the token at mTokEnd
C12_ReadAtEnd ==
  /\ unit = "ParseDeclarationSpecifiers"
  /\ mTokens = <<Kw("kw_int")>>
  /\ pc # "call"
  /\ \E e \in EventsOf("readPastEnd") : hist[e].cur = TokEnd

(***************************************************************************)
(* The token view on its own: Match, Expect, Consume and ConsumeAny called *)
(* at every cursor position of short token vectors                         *)
(***************************************************************************)
MaxViewTokens == 2
MaxViewCalls == 3

ViewAlphabet == {Kw("kw_int"), Kw("semi"), Id("x")}
ViewKinds == {"kw_int", "semi", "identifier"}
ViewInputs == UNION {[1..n -> ViewAlphabet] : n \in 0..MaxViewTokens}

InitTokenView ==
  /\ unit = "TokenView"
  /\ mTokens \in ViewInputs
  /\ mPast \in PastChoices
  /\ valid = FALSE
  /\ mTokCursor = 1
  /\ mScope = <<EmptyFrame>>
  /\ decls = <<>>
  /\ diag = 0
  /\ ubHit = FALSE
  /\ pc = "view"
  /\ iters = 0
  /\ hist = <<>>

\* one call of a member function of the view with argument tokenType; r is
\* its outcome.  The history keeps this call only: the function, its
\* argument, the cursor before the call and the value returned
ViewCall(op, tokenType, r) ==
  /\ mTokCursor' = r.p.cur
  /\ diag' = r.p.diag
  /\ ubHit' = (ubHit \/ r.p.ub)
  /\ hist' = <<[op |-> op, name |-> tokenType, cur |-> mTokCursor,
                ret |-> r.b]>> \o r.p.log
  /\ iters' = iters + 1
  /\ pc' \in (IF ~Live(r.p) THEN {r.p.halt}
              ELSE IF r.p.ub THEN {"view", "crash"} ELSE {"view"})
  /\ UNCHANGED <<mTokens, mPast, mScope, decls, unit, valid>>

CallMatch ==
  /\ pc = "view" /\ iters < MaxViewCalls
  /\ \E k \in ViewKinds : ViewCall("Match", k, Match(Here, k))

CallExpect ==
  /\ pc = "view" /\ iters < MaxViewCalls
  /\ \E k \in ViewKinds : ViewCall("Expect", k, Expect(Here, k))

CallConsume ==
  /\ pc = "view" /\ iters < MaxViewCalls
  /\ \E k \in ViewKinds : ViewCall("Consume", k, Consume(Here, k))

CallConsumeAny ==
  /\ pc = "view" /\ iters < MaxViewCalls
  /\ ViewCall("ConsumeAny", "", [p |-> ConsumeAny(Here), b |-> TRUE])

NextTokenView == CallMatch \/ CallExpect \/ CallConsume \/ CallConsumeAny

SpecTokenView == InitTokenView /\ [][NextTokenView]_vars

\* the call the history of the token view holds
ViewCalled == hist[1]

\* the cursor the call started from is on a token of kind tokenType
CurrentTokenHas(cur, tokenType) ==
  cur \in 1..Len(mTokens) /\ mTokens[cur].k = tokenType

\* C13: Match(kind) and Consume(kind) advance the cursor by exactly one token
\* and return true when the current token has that kind, and leave the
\* cursor unchanged and return false otherwise; Expect(kind) never moves
\* the cursor and returns whether the current token has that kind
C13_MatchConsumeExpect ==
  (unit = "TokenView" /\ hist # <<>>) =>
    LET has == CurrentTokenHas(ViewCalled.cur, ViewCalled.name)
    IN  /\ ViewCalled.op \in {"Match", "Consume"} =>
             IF has THEN mTokCursor = ViewCalled.cur + 1 /\ ViewCalled.ret
             ELSE mTokCursor = ViewCalled.cur /\ ~ViewCalled.ret
        /\ ViewCalled.op = "Expect" =>
             /\ mTokCursor = ViewCalled.cur
             /\ ViewCalled.ret = has

\* Consume(semi) was called with the cursor at mTokEnd, where there is no
\* current token: it read what lies behind the vector, took it for a `;`,
\* returned true and moved the cursor behind mTokEnd
C13_ConsumeBehindEnd ==
  /\ unit = "TokenView"
  /\ hist # <<>>
  /\ ViewCalled.op = "Consume"
  /\ ViewCalled.name = "semi"
  /\ ViewCalled.cur = TokEnd
  /\ ViewCalled.ret
  /\ mTokCursor = TokEnd + 1

(***************************************************************************)
(* ParseDeclarator on its own: function declarators `f ( ... ) ;` with     *)
(* every parameter token sequence up to MaxParamTokens tokens              *)
(***************************************************************************)
MaxParamTokens == 3

ParamAlphabet == {Kw("kw_void"), Kw("kw_int"), Kw("comma"), Id("p")}
ParamTokens == UNION {[1..n -> ParamAlphabet] : n \in 0..MaxParamTokens}
FunctionDeclarator(ps) ==
  <<Id("f"), Kw("l_paren")>> \o ps \o <<Kw("r_paren"), Kw("semi")>>

InitDeclarator ==
  /\ unit = "ParseDeclarator"
  /\ \E ps \in ParamTokens : mTokens = FunctionDeclarator(ps)
  /\ mPast \in PastChoices
  /\ valid = FALSE
  /\ mTokCursor = 1
  /\ mScope = <<EmptyFrame>>
  /\ decls = <<>>
  /\ diag = 0
  /\ ubHit = FALSE
  /\ pc = "call"
  /\ iters = 0
  /\ hist = <<>>

SpecDeclarator == InitDeclarator /\ [][CallUnit]_vars

\* the parameter-type-list of the function declarator the call returned
ReturnedParamTypeList == decls[1].direct.params

\* C14: a function declarator whose parameter list is exactly `(void)`
\* produces a parameter list of length 0 with has_ellipsis = false
C14_VoidIsEmptyParameterList ==
  ( /\ unit = "ParseDeclarator"
    /\ mTokens = FunctionDeclarator(<<Kw("kw_void")>>)
    /\ decls # <<>> ) =>
      /\ Len(ReturnedParamTypeList.params) = 0
      /\ ~ReturnedParamTypeList.hasEllipse

\* ParseDeclarator returned the declarator of `f ( void ) ;` with the cursor
\* on the `;`: its parameter list holds one parameter declaration, of type
\* void and without a declarator
C14_VoidIsOneParameter ==
  /\ unit = "ParseDeclarator"
  /\ mTokens = FunctionDeclarator(<<Kw("kw_void")>>)
  /\ pc = "returned"
  /\ mTokCursor = 5
  /\ diag = 0
  /\ decls # <<>>
  /\ decls[1].direct.t = "DirectDeclaratorParentParamTypeList"
  /\ Len(ReturnedParamTypeList.params) = 1
  /\ ReturnedParamTypeList.params[1].specs.types
       = <<[t |-> "Primitive", name |-> "Void"]>>
  /\ ~ReturnedParamTypeList.hasEllipse

(***************************************************************************)
(* ParseStructOrUnionSpecifier on its own                                  *)
(***************************************************************************)
MaxStructTokens == 3

StructAlphabet ==
  {Kw("kw_struct"), Kw("kw_union"), Id("S"), Kw("l_brace"), Kw("semi")}
StructInputs == UNION {[1..n -> StructAlphabet] : n \in 1..MaxStructTokens}

InitStruct ==
  /\ unit = "ParseStructOrUnionSpecifier"
  /\ mTokens \in StructInputs
  /\ mPast \in PastChoices
  /\ valid = FALSE
  /\ mTokCursor = 1
  /\ mScope = <<EmptyFrame>>
  /\ decls = <<>>
  /\ diag = 0
  /\ ubHit = FALSE
  /\ pc = "call"
  /\ iters = 0
  /\ hist = <<>>

SpecStruct == InitStruct /\ [][CallUnit]_vars

\* C15: the is_union flag of the StructOrUnionSpecifier that
\* ParseStructOrUnionSpecifier builds is true exactly when the introducing
\* keyword is `union`, and false when it is `struct`
C15_IsUnionIffUnionKeyword ==
  (unit = "ParseStructOrUnionSpecifier" /\ decls # <<>>) =>
    (decls[1].isUnion <=> mTokens[1].k = "kw_union")

\* ParseStructOrUnionSpecifier returned the specifier of `struct S ;` with
\* the cursor on the `;`: it is named S and its flag says union
C15_StructFlaggedUnion ==
  /\ unit = "ParseStructOrUnionSpecifier"
  /\ mTokens = <<Kw("kw_struct"), Id("S"), Kw("semi")>>
  /\ pc = "returned"
  /\ mTokCursor = 3
  /\ decls # <<>>
  /\ decls[1].t = "StructOrUnionSpecifier"
  /\ decls[1].name = "S"
  /\ decls[1].isUnion

(***************************************************************************)
(* The binary cascade on its own: ParseLogOrExpr on                        *)
(* operand { operator operand } ;  for every choice of the operators       *)
(***************************************************************************)
MaxOperators == 2

OperandNames == <<"a", "b", "c", "d", "e">>

\* the binary operators of the cascade: token kind, level (1 binds
\* loosest), and the operator kind the node records (none at levels 1..5)
CascadeOperators ==
  { [k |-> "pipe_pipe", level |-> 1, name |-> ""],
    [k |-> "amp_amp", level |-> 2, name |-> ""],
    [k |-> "pipe", level |-> 3, name |-> ""],
    [k |-> "caret", level |-> 4, name |-> ""],
    [k |-> "amp", level |-> 5, name |-> ""],
    [k |-> "equal_equal", level |-> 6, name |-> "Equal"],
    [k |-> "exclaim_equal", level |-> 6, name |-> "NotEqual"],
    [k |-> "less", level |-> 7, name |-> "LessThan"],
    [k |-> "less_equal", level |-> 7, name |-> "LessThanOrEqual"],
    [k |-> "greater", level |-> 7, name |-> "GreaterThan"],
    [k |-> "greater_equal", level |-> 7, name |-> "GreaterThanOrEqual"],
    [k |-> "less_less", level |-> 8, name |-> "Left"],
    [k |-> "greater_greater", level |-> 8, name |-> "Right"],
    [k |-> "plus", level |-> 9, name |-> "Plus"],
    [k |-> "minus", level |-> 9, name |-> "Minus"],
    [k |-> "star", level |-> 10, name |-> "Multiply"],
    [k |-> "slash", level |-> 10, name |-> "Divide"],
    [k |-> "percent", level |-> 10, name |-> "Modulo"] }

CascadeKinds == {o.k : o \in CascadeOperators}
CascadeOperator(kind) == CHOOSE o \in CascadeOperators : o.k = kind

CascadeNodes ==
  <<"LogOrExpr", "LogAndExpr", "BitOrExpr", "BitXorExpr", "BitAndExpr",
    "EqualExpr", "RelationalExpr", "ShiftExpr", "AdditiveExpr", "MultiExpr">>

\* a b c ... joined by the operators ops, then `;`
BinaryInput(ops) ==
  [i \in 1..(2 * Len(ops) + 2) |->
     IF i = 2 * Len(ops) + 2 THEN Kw("semi")
     ELSE IF i % 2 = 1 THEN Id(OperandNames[(i + 1) \div 2])
     ELSE Kw(ops[i \div 2])]

BinaryInputs ==
  {BinaryInput(ops) : ops \in UNION {[1..n -> CascadeKinds] : n \in 0..MaxOperators}}

InitBinary ==
  /\ unit = "ParseLogOrExpr"
  /\ mTokens \in BinaryInputs
  /\ mPast \in PastChoices
  /\ valid = TRUE
  /\ mTokCursor = 1
  /\ mScope = <<EmptyFrame>>
  /\ decls = <<>>
  /\ diag = 0
  /\ ubHit = FALSE
  /\ pc = "call"
  /\ iters = 0
  /\ hist = <<>>

SpecBinary == InitBinary /\ [][CallUnit]_vars

\* the cast-expression that is just the identifier of token tok
OperandTree(tok) ==
  [t |-> "CastExpr",
   unary |-> [t |-> "UnaryExprPostFixExpr",
              postFix |-> [t |-> "PostFixExprPrimaryExpr",
                           primary |-> [t |-> "PrimaryExprIdent",
                                        name |-> tok.v]]]]

\* the elements of a set of numbers in increasing order
Increasing(S) ==
  CHOOSE f \in [1..Cardinality(S) -> S] :
    \A a, b \in 1..Cardinality(S) : a < b => f[a] < f[b]

\* the tree the grammar gives operands i..j of the input at a level: the
\* operators of that level cut the operands into children of the next
\* level, in left-to-right order, each cut recorded with its operator kind
RECURSIVE GrammarTree(_, _, _)
GrammarTree(level, i, j) ==
  IF level > Len(CascadeNodes) THEN OperandTree(mTokens[2 * i - 1])
  ELSE LET cuts == Increasing({k \in i..(j - 1) :
                                 CascadeOperator(mTokens[2 * k].k).level = level})
           upto(m) == IF m > Len(cuts) THEN j ELSE cuts[m]
           child(m) == GrammarTree(level + 1, cuts[m] + 1, upto(m + 1))
       IN  [t |-> CascadeNodes[level],
            first |-> GrammarTree(level + 1, i, upto(1)),
            rest |-> [m \in 1..Len(cuts) |->
                        IF level <= 5 THEN child(m)
                        ELSE <<CascadeOperator(mTokens[2 * cuts[m]].k).name,
                               child(m)>>]]

\* C16: for an expression built from operands and the binary operators of
\* the cascade, the parsed tree places each operator at its own precedence
\* level: operands joined by a higher-precedence operator form one child of
\* the lower-precedence node, and operators of equal level are recorded in
\* left-to-right order with the correct operator kind
C16_CascadePrecedence ==
  (unit = "ParseLogOrExpr" /\ pc # "call") =>
    /\ pc = "returned"
    /\ mTokCursor = Len(mTokens)
    /\ diag = 0
    /\ decls = <<GrammarTree(1, 1, Len(mTokens) \div 2)>>

\* `a + b * c ;` was parsed: the additive node holds a and, recorded with
\* Plus, the multiplicative node of b and c
C16_AddOfMul ==
  /\ unit = "ParseLogOrExpr"
  /\ mTokens = BinaryInput(<<"plus", "star">>)
  /\ pc = "returned"
  /\ LET additive == decls[1].first.first.first.first.first.first.first.first
     IN  /\ additive.t = "AdditiveExpr"
         /\ additive.first.first = OperandTree(Id("a"))
         /\ additive.first.rest = <<>>
         /\ Len(additive.rest) = 1
         /\ additive.rest[1][1] = "Plus"
         /\ additive.rest[1][2].first = OperandTree(Id("b"))
         /\ additive.rest[1][2].rest = <<<<"Multiply", OperandTree(Id("c"))>>>>

(***************************************************************************)
(* ParseAssignExpr on its own:  operand { token operand } ;  where each    *)
(* token is an assignment operator or a token that ends the expression     *)
(***************************************************************************)
MaxAssignments == 2

\* the eleven assignment operators and the kind each is recorded as
AssignmentOperators ==
  { <<"equal", "Assign">>, <<"plus_equal", "PlusAssign">>,
    <<"minus_equal", "MinusAssign">>, <<"star_equal", "MultiplyAssign">>,
    <<"slash_equal", "DivideAssign">>, <<"percent_equal", "ModuloAssign">>,
    <<"less_less_equal", "LeftShiftAssign">>,
    <<"greater_greater_equal", "RightShiftAssign">>,
    <<"amp_equal", "BitAndAssign">>, <<"caret_equal", "BitXorAssign">>,
    <<"pipe_equal", "BitOrAssign">> }

AssignmentKinds == {o[1] : o \in AssignmentOperators}
AssignmentName(kind) == (CHOOSE o \in AssignmentOperators : o[1] = kind)[2]

\* tokens that end an assignment-expression
StopKinds == {"semi", "comma", "r_paren", "colon"}

\* the other token kinds the parser distinguishes
OtherKinds ==
  CascadeKinds \cup StopKinds \cup StorageClassKeywords
    \cup {StmtKeywords[i] : i \in DOMAIN StmtKeywords}
    \cup FirstSpecifierQualifierKeywords
    \cup {"identifier", "numeric_constant", "char_constant", "string_literal",
          "l_paren", "l_square", "r_square", "l_brace", "r_brace", "question",
          "period", "arrow", "plus_plus", "minus_minus", "tilde", "exclaim",
          "ellipsis", "kw_sizeof", "none"}

AssignInputs ==
  {BinaryInput(xs) :
     xs \in UNION {[1..n -> AssignmentKinds \cup StopKinds] :
                     n \in 0..MaxAssignments}}

InitAssign ==
  /\ unit = "ParseAssignExpr"
  /\ mTokens \in AssignInputs
  /\ mPast \in PastChoices
  /\ valid = TRUE
  /\ mTokCursor = 1
  /\ mScope = <<EmptyFrame>>
  /\ decls = <<>>
  /\ diag = 0
  /\ ubHit = FALSE
  /\ pc = "call"
  /\ iters = 0
  /\ hist = <<>>

SpecAssign == InitAssign /\ [][CallUnit]_vars

\* the conditional-expression that is just operand i of the input
OperandConditional(i) ==
  [t |-> "ConditionalExpr", logOr |-> GrammarTree(1, i, i)]

\* how many of the tokens after the operands are assignment operators,
\* counted from the first operand up to the first token that is none
LeadingAssignments ==
  LET n == Len(mTokens) \div 2 - 1
  IN  CHOOSE m \in 0..n :
        /\ \A i \in 1..m : mTokens[2 * i].k \in AssignmentKinds
        /\ m < n => mTokens[2 * (m + 1)].k \notin AssignmentKinds

\* C17: ParseAssignExpr parses a ConditionalExpr and then consumes
\* (operator, ConditionalExpr) pairs exactly while the next token is one of
\* the eleven assignment operators; IsAssignment is true for exactly these
\* eleven kinds and false for every other token kind, and each pair records
\* the operator that matches its token
C17_AssignmentPairs ==
  (unit = "ParseAssignExpr" /\ pc # "call") =>
    /\ pc = "returned"
    /\ diag = 0
    /\ mTokCursor = 2 * LeadingAssignments + 2
    /\ decls = << [t |-> "AssignExpr",
                   cond |-> OperandConditional(1),
                   list |-> [i \in 1..LeadingAssignments |->
                               <<AssignmentName(mTokens[2 * i].k),
                                 OperandConditional(i + 1)>>]] >>
    /\ Cardinality(AssignmentKinds) = 11
    /\ \A k \in AssignmentKinds \cup OtherKinds :
         IsAssignment(k) <=> k \in AssignmentKinds

\* `a ^= b <<= c ;` was parsed: two pairs, BitXorAssign with b and
\* LeftShiftAssign with c, and the cursor is on the `;`
C17_TwoPairs ==
  /\ unit = "ParseAssignExpr"
  /\ mTokens = BinaryInput(<<"caret_equal", "less_less_equal">>)
  /\ pc = "returned"
  /\ mTokCursor = 6
  /\ Len(decls[1].list) = 2
  /\ decls[1].list[1] = <<"BitXorAssign", OperandConditional(2)>>
  /\ decls[1].list[2] = <<"LeftShiftAssign", OperandConditional(3)>>

(***************************************************************************)
(* ParseCastExpr on its own:  ( token ) rest  under scope tables with and  *)
(* without typedef names, shadowed both ways                               *)
(***************************************************************************)
\* the token between the parentheses
CastAlphabet ==
  {Kw(k) : k \in FirstSpecifierQualifierKeywords}
    \cup {Id("T"), Id("x"), Num("1")}

\* what follows the `)`
CastRests ==
  { <<Kw("semi")>>,
    <<Id("y"), Kw("semi")>>,
    <<Kw("l_brace"), Num("1"), Kw("r_brace"), Kw("semi")>> }

Parenthesised(tok, rest) == <<Kw("l_paren"), tok, Kw("r_paren")>> \o rest

InitCast ==
  /\ unit = "ParseCastExpr"
  /\ \E tok \in CastAlphabet, rest \in CastRests :
       mTokens = Parenthesised(tok, rest)
  /\ mScope \in SpecifierScopes
  /\ mPast \in PastChoices
  /\ valid = FALSE
  /\ mTokCursor = 1
  /\ decls = <<>>
  /\ diag = 0
  /\ ubHit = FALSE
  /\ pc = "call"
  /\ iters = 0
  /\ hist = <<>>

SpecCast == InitCast /\ [][CallUnit]_vars

\* tok begins a type-name: a specifier or qualifier keyword, or an
\* identifier whose innermost binding is a typedef
BeginsTypeName(tok) ==
  \/ tok.k \in FirstSpecifierQualifierKeywords
  \/ /\ tok.k = "identifier"
     /\ BindingFrames(mScope, tok.v) # {}
     /\ mScope[Innermost(BindingFrames(mScope, tok.v))][tok.v]

\* the choices ParseCastExpr made at a `(`
CastChoices == EventsOf("CastExprTypeName") \cup EventsOf("CastExprUnary")

\* C18: in ParseCastExpr at a `(`, if the next token begins a type-name the
\* `(` is parsed as the start of a cast; otherwise the cursor is restored to
\* the `(` and the input is parsed as a unary expression whose primary is
\* the parenthesised expression.  An identifier that is an ordinary name,
\* including one that shadows an outer typedef, selects the parenthesised
\* expression
C18_CastOrParenthesised ==
  (unit = "ParseCastExpr" /\ pc # "call") =>
    /\ Cardinality(CastChoices) = 1
    /\ \A e \in CastChoices :
         IF BeginsTypeName(mTokens[2])
           THEN /\ hist[e].op = "CastExprTypeName"
                /\ hist[e].cur = 2
                /\ decls # <<>> => "typeName" \in DOMAIN decls[1]
           ELSE /\ hist[e].op = "CastExprUnary"
                /\ hist[e].cur = 1
                /\ decls # <<>> =>
                     /\ "typeName" \notin DOMAIN decls[1]
                     /\ decls[1].unary.postFix.primary.t = "PrimaryExprParent"

\* `( T ) ;` was parsed where T is an ordinary name that shadows a typedef
\* of an outer frame: the cursor went back to the `(` and the result is the
\* parenthesised expression T
C18_ShadowedTypedefIsExpression ==
  /\ unit = "ParseCastExpr"
  /\ mTokens = Parenthesised(Id("T"), <<Kw("semi")>>)
  /\ mScope = <<"T" :> TRUE, "T" :> FALSE>>
  /\ pc = "returned"
  /\ mTokCursor = 4
  /\ \E e \in EventsOf("CastExprUnary") : hist[e].cur = 1
  /\ decls[1].unary.postFix.primary.t = "PrimaryExprParent"

\* the compound literal ( tok ) { 1 } ;
CompoundLiteralInput(tok) ==
  Parenthesised(tok, <<Kw("l_brace"), Num("1"), Kw("r_brace"), Kw("semi")>>)

\* C19: an expression of the form ( type-name ) { initializer-list } is
\* recognised as a compound literal, a postfix node that holds the
\* type-name and the initializer list, because the `)` is followed by `{`;
\* it is not parsed as a cast applied to what follows the `)`
C19_CompoundLiteral ==
  ( /\ unit = "ParseCastExpr"
    /\ pc # "call"
    /\ BeginsTypeName(mTokens[2])
    /\ mTokens = CompoundLiteralInput(mTokens[2]) ) =>
      /\ pc = "returned"
      /\ mTokCursor = Len(mTokens)
      /\ decls # <<>>
      /\ "typeName" \notin DOMAIN decls[1]
      /\ decls[1].unary.postFix.t = "PostFixExprTypeInitializer"

\* `( int ) { 1 } ;` was parsed as a cast: the type-name int, then
\* ParseCastExpr at the `{`, which finds no expression there, reports it
\* and dereferences the empty result; the cursor is left on the `{`
C19_CastOfBrace ==
  /\ unit = "ParseCastExpr"
  /\ mTokens = CompoundLiteralInput(Kw("kw_int"))
  /\ pc # "call"
  /\ EventsOf("CastExprTypeName") # {}
  /\ mTokCursor = 4
  /\ diag >= 1
  /\ ubHit

(***************************************************************************)
(* ParseStmt on its own: statements that start with an identifier          *)
(***************************************************************************)
MaxStmtTokens == 2

StmtAlphabet ==
  {Kw("colon"), Kw("equal"), Kw("plus_plus"), Kw("comma"), Id("y"), Num("1")}
StmtMiddles == UNION {[1..n -> StmtAlphabet] : n \in 0..MaxStmtTokens}

\* identifier, up to MaxStmtTokens tokens, `;`
InitStmt ==
  /\ unit = "ParseStmt"
  /\ \E name \in {"L", "x"}, mid \in StmtMiddles :
       mTokens = <<Id(name)>> \o mid \o <<Kw("semi")>>
  /\ mPast \in PastChoices
  /\ valid = FALSE
  /\ mTokCursor = 1
  /\ mScope = <<EmptyFrame>>
  /\ decls = <<>>
  /\ diag = 0
  /\ ubHit = FALSE
  /\ pc = "call"
  /\ iters = 0
  /\ hist = <<>>

SpecStmt == InitStmt /\ [][CallUnit]_vars

\* the primary expression the first token of an expression tree belongs to
RECURSIVE FirstPrimary(_)
FirstPrimary(n) ==
  CASE n.t = "Expr" -> FirstPrimary(n.list[1])
    [] n.t = "AssignExpr" -> FirstPrimary(n.cond)
    [] n.t = "ConditionalExpr" -> FirstPrimary(n.logOr)
    [] n.t \in {CascadeNodes[i] : i \in DOMAIN CascadeNodes}
         -> FirstPrimary(n.first)
    [] n.t = "CastExpr" /\ "unary" \in DOMAIN n -> FirstPrimary(n.unary)
    [] n.t = "UnaryExprPostFixExpr" -> FirstPrimary(n.postFix)
    [] n.t = "PostFixExprPrimaryExpr" -> n.primary
    [] n.t \in {"PostFixExprIncrement", "PostFixExprDecrement",
                "PostFixExprDot", "PostFixExprArrow", "PostFixExprFuncCall",
                "PostFixExprSubscript"} -> FirstPrimary(n.postFix)
    [] OTHER -> n

\* C20: in ParseStmt, when a statement starts with an identifier that is
\* not followed by `:`, the cursor is restored to the position of that
\* identifier before the statement is reparsed as an expression statement,
\* so the identifier is the first token of the parsed expression; when it
\* is followed by `:`, both tokens are consumed and a label with that
\* identifier's name is produced
C20_LabelOrExpression ==
  (unit = "ParseStmt" /\ pc # "call") =>
    IF mTokens[2].k = "colon"
      THEN /\ pc = "returned"
           /\ mTokCursor = 3
           /\ decls = <<[t |-> "LabelStmt", name |-> mTokens[1].v]>>
           /\ EventsOf("ReparseAsExprStmt") = {}
      ELSE /\ Cardinality(EventsOf("ReparseAsExprStmt")) = 1
           /\ \A e \in EventsOf("ReparseAsExprStmt") : hist[e].cur = 1
           /\ (decls # <<>> /\ ~ubHit) =>
                /\ decls[1].t = "ExprStmt"
                /\ FirstPrimary(decls[1].expr)
                     = [t |-> "PrimaryExprIdent", name |-> mTokens[1].v]

\* `x = 1 ;` was parsed: the cursor went back to x, the statement is the
\* expression statement whose expression starts with x, and the cursor is
\* behind the `;`
C20_IdentifierStartsExpression ==
  /\ unit = "ParseStmt"
  /\ mTokens = <<Id("x"), Kw("equal"), Num("1"), Kw("semi")>>
  /\ pc = "returned"
  /\ mTokCursor = TokEnd
  /\ diag = 0
  /\ \E e \in EventsOf("ReparseAsExprStmt") : hist[e].cur = 1
  /\ decls[1].t = "ExprStmt"
  /\ FirstPrimary(decls[1].expr) = [t |-> "PrimaryExprIdent", name |-> "x"]
  /\ Len(decls[1].expr.list[1].list) = 1

(***************************************************************************)
(* ParseForStmt on its own:  for ( init cond ; step ) ;                    *)
(***************************************************************************)
MaxForTokens == 2

ForAlphabet == {Id("i"), Num("1"), Kw("less"), Kw("plus_plus")}
ForConditions == UNION {[1..n -> ForAlphabet] : n \in 0..MaxForTokens}

\* the init clause: a declaration, an expression statement, or the empty
\* expression statement
ForDeclarationInit == <<Kw("kw_int"), Id("i"), Kw("equal"), Num("0"), Kw("semi")>>
ForExpressionInit == <<Id("i"), Kw("equal"), Num("0"), Kw("semi")>>
ForInits == {ForDeclarationInit, ForExpressionInit, <<Kw("semi")>>}

ForSteps == {<<>>, <<Id("i"), Kw("plus_plus")>>}

ForInput(init, cond, step) ==
  <<Kw("kw_for"), Kw("l_paren")>> \o init \o cond \o <<Kw("semi")>> \o step
    \o <<Kw("r_paren"), Kw("semi")>>

InitFor ==
  /\ unit = "ParseForStmt"
  /\ \E init \in ForInits, cond \in ForConditions, step \in ForSteps :
       mTokens = ForInput(init, cond, step)
  /\ mPast \in PastChoices
  /\ valid = FALSE
  /\ mTokCursor = 1
  /\ mScope = <<EmptyFrame>>
  /\ decls = <<>>
  /\ diag = 0
  /\ ubHit = FALSE
  /\ pc = "call"
  /\ iters = 0
  /\ hist = <<>>

SpecFor == InitFor /\ [][CallUnit]_vars

\* the input is a for statement with an empty condition
EmptyConditionFor ==
  \E init \in {ForDeclarationInit, ForExpressionInit}, step \in ForSteps :
    mTokens = ForInput(init, <<>>, step)

\* C21: in a for statement the condition is optional for both forms of the
\* init clause: with a declaration and with an expression statement as init
\* and an empty condition, the statement parses to a For node with an
\* absent condition and without a diagnostic
C21_EmptyConditionParses ==
  (unit = "ParseForStmt" /\ pc # "call" /\ EmptyConditionFor) =>
    /\ pc = "returned"
    /\ diag = 0
    /\ mTokCursor = TokEnd
    /\ decls # <<>>
    /\ decls[1].t = "ForStmt"
    /\ decls[1].control = Null

\* `for ( int i = 0 ; ; i ++ ) ;` was parsed: after the declaration
\* ParseExpr was called at the `;` of the empty condition and a diagnostic
\* was reported
C21_DeclarationNeedsCondition ==
  /\ unit = "ParseForStmt"
  /\ mTokens = ForInput(ForDeclarationInit, <<>>, <<Id("i"), Kw("plus_plus")>>)
  /\ pc # "call"
  /\ diag >= 1

(***************************************************************************)
(* ParseAbstractDeclarator on its own                                      *)
(***************************************************************************)
MaxAbstractTokens == 3

AbstractAlphabet ==
  {Kw("star"), Kw("l_paren"), Kw("r_paren"), Kw("comma"), Kw("kw_int")}
AbstractInputs ==
  {s \o <<Kw("semi")>> :
     s \in UNION {[1..n -> AbstractAlphabet] : n \in 1..MaxAbstractTokens}}

InitAbstract ==
  /\ unit = "ParseAbstractDeclarator"
  /\ mTokens \in AbstractInputs
  /\ mPast \in PastChoices
  /\ valid = FALSE
  /\ mTokCursor = 1
  /\ mScope = <<EmptyFrame>>
  /\ decls = <<>>
  /\ diag = 0
  /\ ubHit = FALSE
  /\ pc = "call"
  /\ iters = 0
  /\ hist = <<>>

SpecAbstract == InitAbstract /\ [][CallUnit]_vars

\* the abstract declarators of the claim, each followed by `;`: the `*` of
\* a parameter `int *` before `)` and before `,`, and the `( * )` of the
\* type-name `int ( * ) ( int )`
PointerOnlyInputs ==
  { <<Kw("star"), Kw("r_paren"), Kw("semi")>>,
    <<Kw("star"), Kw("comma"), Kw("semi")>>,
    <<Kw("l_paren"), Kw("star"), Kw("r_paren"), Kw("semi")>> }

\* C22: an abstract declarator that has pointers but no direct part parses
\* to an AbstractDeclarator with pointers only, and the assertion
\* LCC_ASSERT(directAbstractDeclarator) of
\* ParseDirectAbstractDeclaratorSuffix is never violated for it
C22_PointerOnlyAbstractDeclarator ==
  ( /\ unit = "ParseAbstractDeclarator"
    /\ pc # "call"
    /\ mTokens \in PointerOnlyInputs ) =>
      /\ pc = "returned"
      /\ decls # <<>>
      /\ decls[1].t = "AbstractDeclarator"

\* ParseAbstractDeclarator was called on `* ) ;`: it took the pointer, and
\* ParseDirectAbstractDeclaratorSuffix found neither `(` nor `[` and
\* asserted on the null direct declarator; the process aborted
C22_AssertionFails ==
  /\ unit = "ParseAbstractDeclarator"
  /\ mTokens = <<Kw("star"), Kw("r_paren"), Kw("semi")>>
  /\ pc = "abort"
  /\ mTokCursor = 2
  /\ decls = <<>>

(***************************************************************************)
(* ParseDeclarator on its own: array declarators  a ... ;                  *)
(***************************************************************************)
MaxArrayTokens == 3

ArrayAlphabet == {Kw("l_square"), Kw("r_square"), Num("1"), Id("n")}
\* no `[` of s is inside another pair of brackets
Unnested(s) ==
  \A i, j \in 1..Len(s) :
    (i < j /\ s[i].k = "l_square" /\ s[j].k = "l_square") =>
      \E m \in (i + 1)..(j - 1) : s[m].k = "r_square"

ArraySuffixes ==
  {s \in UNION {[1..n -> ArrayAlphabet] : n \in 0..MaxArrayTokens} :
     Unnested(s)}

InitArray ==
  /\ unit = "ParseDeclarator"
  /\ \E s \in ArraySuffixes : mTokens = <<Id("a")>> \o s \o <<Kw("semi")>>
  /\ mPast \in PastChoices
  /\ valid = TRUE
  /\ mTokCursor = 1
  /\ mScope = <<EmptyFrame>>
  /\ decls = <<>>
  /\ diag = 0
  /\ ubHit = FALSE
  /\ pc = "call"
  /\ iters = 0
  /\ hist = <<>>

SpecArray == InitArray /\ [][CallUnit]_vars

EmptyBrackets == <<Id("a"), Kw("l_square"), Kw("r_square"), Kw("semi")>>

\* C23: an array suffix with empty brackets on a direct declarator, as in
\* `int a[];`, is accepted: it produces an array suffix node around the
\* inner declarator with no size expression, and no diagnostic
C23_EmptyBracketsAccepted ==
  (unit = "ParseDeclarator" /\ pc # "call" /\ mTokens = EmptyBrackets) =>
    /\ pc = "returned"
    /\ diag = 0
    /\ decls # <<>>
    /\ decls[1].direct.t = "DirectDeclaratorAssignExpr"
    /\ decls[1].direct.direct = [t |-> "DirectDeclaratorIdent", name |-> "a"]

\* ParseDeclarator returned the declarator of `a [ ] ;` with the cursor on
\* the `;`: `expect assign expr` was reported, and the declarator is the
\* plain identifier a, without an array suffix
C23_EmptyBracketsReported ==
  /\ unit = "ParseDeclarator"
  /\ mTokens = EmptyBrackets
  /\ pc = "returned"
  /\ mTokCursor = 4
  /\ diag = 1
  /\ decls[1].direct = [t |-> "DirectDeclaratorIdent", name |-> "a"]

(***************************************************************************)
(* ParseBlockStmt on its own:  { item ... }  under scope tables with and   *)
(* without the typedef T                                                   *)
(***************************************************************************)
MaxBlockItems == 2

\* block items: declarations, statements, nested blocks, and `)` which
\* starts no block item
BlockItemCorpus ==
  { <<Kw("kw_int"), Id("T"), Kw("semi")>>,
    <<Kw("kw_int"), Id("x"), Kw("semi")>>,
    <<Kw("kw_typedef"), Kw("kw_int"), Id("x"), Kw("semi")>>,
    <<Id("T"), Id("y"), Kw("semi")>>,
    <<Id("T"), Kw("equal"), Num("1"), Kw("semi")>>,
    <<Id("x"), Kw("semi")>>,
    <<Kw("semi")>>,
    <<Kw("l_brace"), Kw("kw_int"), Id("T"), Kw("semi"), Kw("r_brace")>>,
    <<Kw("l_brace"), Id("T"), Id("x"), Kw("semi"), Kw("r_brace")>>,
    <<Kw("kw_return"), Kw("r_paren"), Kw("semi")>> }

BlockBodies == UNION {[1..n -> BlockItemCorpus] : n \in 0..MaxBlockItems}

RECURSIVE Concat(_)
Concat(ss) == IF ss = <<>> THEN <<>> ELSE Head(ss) \o Concat(Tail(ss))

BlockScopes ==
  {<<EmptyFrame>>, <<"T" :> TRUE>>, <<"T" :> TRUE, "T" :> FALSE>>}

InitBlock ==
  /\ unit = "ParseBlockStmt"
  /\ \E body \in BlockBodies :
       mTokens = <<Kw("l_brace")>> \o Concat(body) \o <<Kw("r_brace")>>
  /\ mScope \in BlockScopes
  /\ mPast \in PastChoices
  /\ valid = FALSE
  /\ mTokCursor = 1
  /\ decls = <<>>
  /\ diag = 0
  /\ ubHit = FALSE
  /\ pc = "call"
  /\ iters = 0
  /\ hist = <<>>

SpecBlock == InitBlock /\ [][CallUnit]_vars

\* the scope table before the `{`: what the pushScope of the block, the
\* first scope operation of the call, found
ScopeBeforeBlock == SubSeq(hist[1].scope, 1, Len(hist[1].scope) - 1)

\* C24: a successfully parsed compound statement leaves the scope stack
\* exactly as it was before its `{`, the same frames with the same
\* bindings; names declared inside the block are not visible after its
\* `}`, and a typedef that was shadowed by an ordinary declaration inside
\* the block is a typedef-name again after the block
C24_BlockRestoresScope ==
  (unit = "ParseBlockStmt" /\ pc = "returned" /\ decls # <<>>) =>
    /\ hist[1].op = "pushScope"
    /\ mScope = ScopeBeforeBlock
    /\ \A e \in EventsOf("addToScope") \cup EventsOf("addTypedef") :
         isTypedefInScope(mScope, hist[e].name)
           = isTypedefInScope(ScopeBeforeBlock, hist[e].name)

\* `{ int T ; x ; }` was parsed where T is a typedef outside: inside the
\* block T was declared as an ordinary name and was no typedef-name, and
\* after the block T is a typedef-name again and the table is as before
C24_ShadowEndsWithBlock ==
  /\ unit = "ParseBlockStmt"
  /\ mTokens = <<Kw("l_brace"), Kw("kw_int"), Id("T"), Kw("semi"),
                 Id("x"), Kw("semi"), Kw("r_brace")>>
  /\ pc = "returned"
  /\ mTokCursor = TokEnd
  /\ Len(decls[1].items) = 2
  /\ \E e \in EventsOf("addToScope") :
       /\ hist[e].name = "T"
       /\ ~isTypedefInScope(hist[e].scope, "T")
  /\ mScope = <<"T" :> TRUE>>
  /\ isTypedefInScope(mScope, "T")

(***************************************************************************)
(* ParseBlockItem on its own: one token and what follows it, under scope   *)
(* tables with and without typedef names, shadowed both ways               *)
(***************************************************************************)
\* the first token of the block item
BlockItemFirsts ==
  {Kw(k) : k \in StorageClassKeywords \cup FirstSpecifierQualifierKeywords}
    \cup {Id("T"), Id("x"), Num("1"), Kw("semi"), Kw("kw_return")}

\* what follows it
BlockItemRests ==
  { <<Kw("semi")>>,
    <<Id("y"), Kw("semi")>>,
    <<Kw("equal"), Num("1"), Kw("semi")>> }

InitBlockItem ==
  /\ unit = "ParseBlockItem"
  /\ \E tok \in BlockItemFirsts, rest \in BlockItemRests :
       mTokens = <<tok>> \o rest
  /\ mScope \in SpecifierScopes
  /\ mPast \in PastChoices
  /\ valid = FALSE
  /\ mTokCursor = 1
  /\ decls = <<>>
  /\ diag = 0
  /\ ubHit = FALSE
  /\ pc = "call"
  /\ iters = 0
  /\ hist = <<>>

SpecBlockItem == InitBlockItem /\ [][CallUnit]_vars

\* tok begins a declaration specifier under the scope table: a specifier
\* keyword, or an identifier whose innermost binding is a typedef
BeginsDeclarationSpecifier(tok, scope) ==
  \/ tok.k \in StorageClassKeywords \cup FirstSpecifierQualifierKeywords
  \/ /\ tok.k = "identifier"
     /\ BindingFrames(scope, tok.v) # {}
     /\ scope[Innermost(BindingFrames(scope, tok.v))][tok.v]

\* the choices ParseBlockItem made
BlockItemChoices ==
  EventsOf("BlockItemDeclaration") \cup EventsOf("BlockItemStmt")

\* C25: ParseBlockItem parses a block item as a declaration exactly when
\* its first token begins a declaration specifier: a specifier keyword, or
\* an identifier for which isTypedefInScope is true at that moment; a block
\* item that starts with an identifier bound as ordinary in a nearer frame
\* (shadowing an outer typedef) or with an unbound identifier is parsed as a
\* statement
C25_DeclarationOrStatement ==
  (unit = "ParseBlockItem" /\ pc # "call") =>
    /\ Cardinality(BlockItemChoices) = 1
    /\ \A e \in BlockItemChoices :
         /\ hist[e].cur = 1
         /\ hist[e].scope \in SpecifierScopes
         /\ IF BeginsDeclarationSpecifier(mTokens[1], hist[e].scope)
              THEN /\ hist[e].op = "BlockItemDeclaration"
                   /\ decls # <<>> => decls[1].kind = "Declaration"
              ELSE /\ hist[e].op = "BlockItemStmt"
                   /\ decls # <<>> => decls[1].kind = "Stmt"

\* `T = 1 ;` was parsed where T is an ordinary name that shadows a typedef
\* of an outer frame: the block item is a statement
C25_ShadowedTypedefIsStatement ==
  /\ unit = "ParseBlockItem"
  /\ mTokens = <<Id("T"), Kw("equal"), Num("1"), Kw("semi")>>
  /\ mScope = <<"T" :> TRUE, "T" :> FALSE>>
  /\ pc = "returned"
  /\ mTokCursor = TokEnd
  /\ diag = 0
  /\ EventsOf("BlockItemStmt") # {}
  /\ decls[1].kind = "Stmt"
  /\ decls[1].n.t = "ExprStmt"

(***************************************************************************)
(* The specifier loops called at each token of their FIRST predicates      *)
(***************************************************************************)
\* the token the loop is called at
FirstTokens ==
  {Kw(k) : k \in StorageClassKeywords \cup FirstSpecifierQualifierKeywords}
    \cup {Id("T"), Id("x")}

\* what follows it
FirstRests == { <<Id("x"), Kw("semi")>>, <<Id("y"), Kw("semi")>> }

InitFirst ==
  /\ unit \in {"ParseDeclarationSpecifiers", "ParseSpecifierQualifierList"}
  /\ \E tok \in FirstTokens, rest \in FirstRests : mTokens = <<tok>> \o rest
  /\ mScope \in SpecifierScopes
  /\ mPast \in PastChoices
  /\ valid = FALSE
  /\ mTokCursor = 1
  /\ decls = <<>>
  /\ diag = 0
  /\ ubHit = FALSE
  /\ pc = "call"
  /\ iters = 0
  /\ hist = <<>>

SpecFirst == InitFirst /\ [][CallUnit]_vars

\* the parser as it was called: at the first token
AtFirstToken == [Here EXCEPT !.cur = 1]

\* the loop consumed the token it was called at and returned specifiers
ConsumedFirstToken ==
  /\ mTokCursor > 1
  /\ decls # <<>>
  /\ ~isEmpty(decls[1])

\* C26: the FIRST predicate and the specifier loop agree: for every token
\* kind for which IsFirstInDeclarationSpecifier returns true (including
\* `inline` and `_Bool`), ParseDeclarationSpecifiers called at that token
\* consumes it and returns a non-empty specifier list; likewise
\* ParseSpecifierQualifierList consumes every token for which
\* IsFirstInSpecifierQualifier returns true
C26_FirstAgreesWithLoop ==
  /\ (/\ unit = "ParseDeclarationSpecifiers"
      /\ pc # "call"
      /\ IsFirstInDeclarationSpecifier(AtFirstToken)) => ConsumedFirstToken
  /\ (/\ unit = "ParseSpecifierQualifierList"
      /\ pc # "call"
      /\ IsFirstInSpecifierQualifier(AtFirstToken)) => ConsumedFirstToken

\* ParseDeclarationSpecifiers was called at `inline`, for which
\* IsFirstInDeclarationSpecifier is true, and returned an empty specifier
\* list with the cursor still on `inline`
C26_InlineNotConsumed ==
  /\ unit = "ParseDeclarationSpecifiers"
  /\ mTokens[1] = Kw("kw_inline")
  /\ IsFirstInDeclarationSpecifier(AtFirstToken)
  /\ pc = "returned"
  /\ mTokCursor = 1
  /\ diag = 0
  /\ decls = <<EmptySpecifiers>>

(***************************************************************************)
(* ParseBlockStmt returning a miss                                         *)
(***************************************************************************)
\* ParseBlockStmt returned without a BlockStmt
BlockStmtMissed ==
  /\ unit = "ParseBlockStmt"
  /\ pc = "returned"
  /\ decls = <<>>

\* C27: ParseBlockStmt restores the scope depth on every return path: when
\* parsing of a block item fails and ParseBlockStmt returns a miss, the
\* frame it pushed has been popped, so after a failed function body or
\* nested block the scope stack has the same depth as before the block was
\* entered
C27_MissRestoresDepth ==
  BlockStmtMissed => Len(mScope) = Len(ScopeBeforeBlock)

\* `{ T = 1 ; }` was called with one frame on the stack, in which T is a
\* typedef: the declaration `T = 1 ;` fails, ParseBlockStmt returned a
\* miss, and the stack has two frames
C27_FrameLeftOnMiss ==
  /\ BlockStmtMissed
  /\ mTokens = <<Kw("l_brace"), Id("T"), Kw("equal"), Num("1"), Kw("semi"),
                 Kw("r_brace")>>
  /\ ScopeBeforeBlock = <<"T" :> TRUE>>
  /\ Len(mScope) = 2
  /\ diag > 0
  /\ ~ubHit
  /\ EventsOf("popScope") = {}

(***************************************************************************)
(* Sub-parsers that return a miss: ParseAssignExpr and ParseDeclarator on  *)
(* short token vectors, most of them ill-formed                            *)
(***************************************************************************)
MaxMissTokens == 2   \* tokens before the `;`

\* tokens of the expressions: an operand, a token that is none, and
\* operators that make their caller parse a second operand
ExprMissAlphabet ==
  {Id("a"), Kw("r_paren"), Kw("amp_amp"), Kw("equal")}

\* tokens of the declarators
DeclMissAlphabet ==
  {Id("a"), Kw("l_paren"), Kw("r_paren"), Kw("star")}

MissInputs(alphabet) == UNION {[1..n -> alphabet] : n \in 0..MaxMissTokens}

InitMiss ==
  /\ \/ /\ unit = "ParseAssignExpr"
        /\ \E s \in MissInputs(ExprMissAlphabet) : mTokens = s \o <<Kw("semi")>>
     \/ /\ unit = "ParseDeclarator"
        /\ \E s \in MissInputs(DeclMissAlphabet) : mTokens = s \o <<Kw("semi")>>
  /\ mScope = <<EmptyFrame>>
  /\ mPast \in PastChoices
  /\ valid = FALSE
  /\ mTokCursor = 1
  /\ decls = <<>>
  /\ diag = 0
  /\ ubHit = FALSE
  /\ pc = "call"
  /\ iters = 0
  /\ hist = <<>>

SpecMiss == InitMiss /\ [][CallUnit]_vars

\* the parse functions that dereferenced an empty optional or a null
\* pointer
DereferencedEmpty == {hist[e].name : e \in EventsOf("derefEmpty")}

\* C28: whenever a sub-parser returns a miss (an empty optional), the
\* calling parse function either returns a miss itself or continues without
\* reading the missing value; no parse function (ParseAssignExpr,
\* ParseLogAndExpr, ParseDirectDeclarator, ParseDeclarationSpecifiers,
\* ParseTypeName, ParseCastExpr, ParsePostFixExpr) dereferences an empty
\* result after reporting the error
C28_NoEmptyDereference == DereferencedEmpty = {}

\* ParseDeclarator was called on `( ) ;`: ParseDirectDeclarator reported
\* the failed inner declarator and dereferenced the empty result
C28_DeclaratorDereferenced ==
  /\ unit = "ParseDeclarator"
  /\ mTokens = <<Kw("l_paren"), Kw("r_paren"), Kw("semi")>>
  /\ pc # "call"
  /\ diag > 0
  /\ ubHit
  /\ "ParseDirectDeclarator" \in DereferencedEmpty

(***************************************************************************)
(* ParsePostFixExpr on a primary expression and the tokens after it        *)
(***************************************************************************)
MaxSuffixTokens == 2   \* tokens between the primary expression and the `;`

SuffixAlphabet ==
  {Id("b"), Num("1"), Kw("plus_plus"), Kw("minus_minus"), Kw("period"),
   Kw("arrow"), Kw("comma")}

SuffixInputs == UNION {[1..n -> SuffixAlphabet] : n \in 0..MaxSuffixTokens}

InitSuffix ==
  /\ unit = "ParsePostFixExpr"
  /\ \E s \in SuffixInputs : mTokens = <<Id("a")>> \o s \o <<Kw("semi")>>
  /\ mScope = <<EmptyFrame>>
  /\ mPast \in PastChoices
  /\ valid = FALSE
  /\ mTokCursor = 1
  /\ decls = <<>>
  /\ diag = 0
  /\ ubHit = FALSE
  /\ pc = "call"
  /\ iters = 0
  /\ hist = <<>>

SpecSuffix == InitSuffix /\ [][CallUnit]_vars

\* C29: the suffix loop of ParsePostFixExprSuffix terminates on every token
\* stream: each iteration taken because IsPostFixExpr(current kind) is true
\* consumes at least one token, also when the current token is an
\* identifier, a char_constant or a numeric_constant (e.g. the expression
\* tokens `a b`)
C29_SuffixLoopTerminates ==
  (unit = "ParsePostFixExpr" /\ pc # "call") => pc # "hang"

\* ParsePostFixExpr was called on `a b ;`: the loop is at b, for which
\* IsPostFixExpr is true and no branch consumes, and does not return
C29_LoopStuckAtIdentifier ==
  /\ unit = "ParsePostFixExpr"
  /\ mTokens = <<Id("a"), Id("b"), Kw("semi")>>
  /\ pc = "hang"
  /\ IsPostFixExpr(mTokens[2].k)
  /\ decls = <<>>

(***************************************************************************)
(* Function definitions int f ( parameters ) { }                           *)
(***************************************************************************)
FunctionDefinitionOf(ps) ==
  <<Kw("kw_int"), Id("f"), Kw("l_paren")>> \o ps
    \o <<Kw("r_paren"), Kw("l_brace"), Kw("r_brace")>>

InitDefinition ==
  /\ unit = "ParseExternalDeclaration"
  /\ \E ps \in ParamTokens : mTokens = FunctionDefinitionOf(ps)
  /\ mScope = <<EmptyFrame>>
  /\ mPast \in PastChoices
  /\ valid = FALSE
  /\ mTokCursor = 1
  /\ decls = <<>>
  /\ diag = 0
  /\ ubHit = FALSE
  /\ pc = "call"
  /\ iters = 0
  /\ hist = <<>>

SpecDefinition == InitDefinition /\ [][CallUnit]_vars

\* the tokens between the parentheses of the definition
ParameterTokens == SubSeq(mTokens, 4, Len(mTokens) - 3)

\* ps is a list of parameters separated by commas, each of them specifier
\* keywords followed by at most one name
IsParameterList(ps) ==
  /\ ps # <<>>
  /\ ps[1].k # "comma"
  /\ ps[Len(ps)].k # "comma"
  /\ \A i \in 1..Len(ps) :
       /\ ps[i].k = "comma" => (i > 1 /\ ps[i - 1].k # "comma")
       /\ ps[i].k = "identifier" =>
            /\ i > 1
            /\ ps[i - 1].k \notin {"comma", "identifier"}
            /\ i < Len(ps) => ps[i + 1].k = "comma"

\* a parameter of the list ps has no name, and it is not the sole `void`
HasUnnamedParameter(ps) ==
  /\ IsParameterList(ps)
  /\ ps # <<Kw("kw_void")>>
  /\ \E i \in 1..Len(ps) :
       /\ ps[i].k \notin {"comma", "identifier"}
       /\ i < Len(ps) => ps[i + 1].k = "comma"

\* C30: a function definition in which a parameter has no name (an
\* abstract or absent declarator, other than the sole `void` parameter),
\* e.g. `int f(int) { }`, is reported as a diagnostic and handled as an
\* error outcome: binding of parameter names skips that parameter and no
\* exception escapes ParseExternalDeclaration
C30_UnnamedParameterReported ==
  (/\ unit = "ParseExternalDeclaration"
   /\ pc # "call"
   /\ HasUnnamedParameter(ParameterTokens)) =>
    /\ diag > 0
    /\ pc = "returned"

\* ParseExternalDeclaration was called on `int f ( int ) { }`: the
\* diagnostic was reported and std::bad_variant_access left the function
\* before the body was parsed
C30_ExceptionEscapes ==
  /\ unit = "ParseExternalDeclaration"
  /\ mTokens = FunctionDefinitionOf(<<Kw("kw_int")>>)
  /\ pc = "throw"
  /\ diag = 1
  /\ decls = <<>>
  /\ EventsOf("ParseBlockStmt") = {}

====
